---- MODULE Spec2Model ----
(***************************************************************************)
(* Model of the M5StickCPlus2 MQTT sensor monitor / NTP clock firmware     *)
(* (src/src/main.cpp).  Text is a sequence of byte values; a String never  *)
(* holds the byte 0.  Decimal numbers are kept exactly as m * 10^e (the    *)
(* rounding of the 32-bit float type is not modelled).                     *)
(***************************************************************************)
EXTENDS Integers, Sequences, FiniteSets, TLC

\* State of the three-function checks: the input, the function applied, its
\* result.
VARIABLES fnInput, fnMsg, fnOp, fnString, fnAccept, fnPacket

\* State of the firmware: the control position, the globals of main.cpp, the
\* library objects it drives (MQTT client, time client, Digi-Clock unit, LCD),
\* the millisecond counter, the number of loop passes made, ev, the events
\* of the step just taken (redraw, message outcome, clock write), and
\* clockLog, the evaluations of updateDigiClockDisplay made so far (kept by
\* ClockSpec only), and displayHistory, what the earlier interval ticks drew
\* and the last message accepted (kept by DisplaySpec only).
VARIABLES pc, mqttReturn, wifiWaits, ntpAttempt, timeSynced, epochTime,
          mqttCallbackSet, mqttConnected, mqttSubscribed, mqttFailures,
          digiClockPresent, digiClockString, last_digiclock_minute,
          currentSensorReading, displayCO2, lastInteractiveDisplayTime,
          millisCounter, sinceRead, screen, passes, ev, clockLog,
          displayHistory

\* ------------------------------------------------------------------------
\* Program constants
\* ------------------------------------------------------------------------
INTERACTIVE_DISPLAY_INTERVAL_MILLISECONDS == 3000
MAIN_LOOP_DELAY_MILLISECONDS == 100
MQTT_RECONNECTION_DELAY_MILLISECONDS == 5000
NestingLimit == 10
MAXIMUM_NTP_RETRY_ATTEMPTS == 10
CONNECTION_SUCCESS_DISPLAY_TIME == 2000
EpochThreshold == 1672531200
Limb == 65536

\* Character codes used by the code and by the JSON grammar.
ChSpace == 32
ChQuote == 34
ChApos == 39
ChComma == 44
ChMinus == 45
ChDot == 46
ChZero == 48
ChColon == 58
ChBackslash == 92
ChLBracket == 91
ChRBracket == 93
ChLBrace == 123
ChRBrace == 125

K_co2 == <<99, 111, 50>>
K_thi == <<116, 104, 105>>
K_temperature == <<116, 101, 109, 112, 101, 114, 97, 116, 117, 114, 101>>
K_humidity == <<104, 117, 109, 105, 100, 105, 116, 121>>
K_comfort_level == <<99, 111, 109, 102, 111, 114, 116, 95, 108, 101, 118, 101, 108>>
K_timestamp == <<116, 105, 109, 101, 115, 116, 97, 109, 112>>
LitTrue == <<116, 114, 117, 101>>
LitFalse == <<102, 97, 108, 115, 101>>
LitNull == <<110, 117, 108, 108>>

\* ------------------------------------------------------------------------
\* 4.1 Payload decoder: convertRawPayloadToString
\* ------------------------------------------------------------------------
\* The filter of the loop body: a byte is kept when 32 <= b <= 126.
IsPrintableMutant(b) == b > 32 /\ b <= 126

IsPrintable(b) == b >= 32 /\ b <= 126

\* The for loop over i = 0 .. payloadLength-1: the bytes the filter keeps are
\* appended to convertedMessage one by one, in the order of the buffer.
convertRawPayloadToString(rawPayload) == SelectSeq(rawPayload, IsPrintable)

\* ------------------------------------------------------------------------
\* 4.2 Structural validator: validateJSONDataIntegrity
\* ------------------------------------------------------------------------
\* isspace() of the C locale: tab, LF, VT, FF, CR and space.
IsSpace(c) == c = 32 \/ (c >= 9 /\ c <= 13)

RECURSIVE TrimLeft(_)
TrimLeft(s) == IF s # <<>> /\ IsSpace(Head(s)) THEN TrimLeft(Tail(s)) ELSE s

RECURSIVE TrimRight(_)
TrimRight(s) ==
    IF s # <<>> /\ IsSpace(s[Len(s)]) THEN TrimRight(SubSeq(s, 1, Len(s) - 1)) ELSE s

\* String::trim(): drops the leading and the trailing isspace() characters.
Trim(s) == TrimRight(TrimLeft(s))

startsWith(s, c) == s # <<>> /\ s[1] = c

endsWith(s, c) == s # <<>> /\ s[Len(s)] = c

validateJSONDataIntegrityMutant(jsonData) ==
    LET trimmedData == Trim(jsonData)
    IN  IF Len(trimmedData) = 0 THEN FALSE
        ELSE IF ~startsWith(trimmedData, ChLBrace) THEN FALSE
        ELSE TRUE

validateJSONDataIntegrity(jsonData) ==
    LET trimmedData == Trim(jsonData)
    IN  IF Len(trimmedData) = 0 THEN FALSE
        ELSE IF ~startsWith(trimmedData, ChLBrace) THEN FALSE
        ELSE IF ~endsWith(trimmedData, ChRBrace) THEN FALSE
        ELSE TRUE

\* ------------------------------------------------------------------------
\* JSON values as the ArduinoJson document holds them
\* ------------------------------------------------------------------------
\* null, booleans, numbers m * 10^e, strings, arrays, objects (members in
\* document order).
JNull == [t |-> "null"]
JBool(b) == [t |-> "bool", b |-> b]
JStr(s) == [t |-> "str", s |-> s]
JArr(items) == [t |-> "arr", items |-> items]
JObj(members) == [t |-> "obj", members |-> members]

RECURSIVE Pow10(_)
Pow10(n) == IF n = 0 THEN 1 ELSE 10 * Pow10(n - 1)

RECURSIVE NormalizeNum(_, _)
\* The canonical form of m * 10^e: m has no trailing zero, and 0 is 0 * 10^0.
NormalizeNum(m, e) ==
    IF m = 0 THEN [t |-> "num", m |-> 0, e |-> 0]
    ELSE IF m % 10 = 0 THEN NormalizeNum(m \div 10, e + 1)
    ELSE [t |-> "num", m |-> m, e |-> e]

JNum(m, e) == NormalizeNum(m, e)

IsDigit(c) == c >= 48 /\ c <= 57

\* Whitespace the JSON reader skips: space, tab, LF, CR.
IsJsonSpace(c) == c = 32 \/ c = 9 \/ c = 10 \/ c = 13

\* Characters of an unquoted key: 0-9, A-Z, and '_' .. 'z'.
CanBeInNonQuotedString(c) ==
    IsDigit(c) \/ (c >= 65 /\ c <= 90) \/ (c >= 95 /\ c <= 122)

\* Characters collected for a number token: digits + - . e E
CanBeInNumber(c) == IsDigit(c) \/ c = 43 \/ c = 45 \/ c = 46 \/ c = 101 \/ c = 69

RECURSIVE SkipSpaces(_, _)
SkipSpaces(s, p) ==
    IF p <= Len(s) /\ IsJsonSpace(s[p]) THEN SkipSpaces(s, p + 1) ELSE p

RECURSIVE DigitRunEnd(_, _)
\* The first position >= p of s that holds no decimal digit.
DigitRunEnd(s, p) ==
    IF p <= Len(s) /\ IsDigit(s[p]) THEN DigitRunEnd(s, p + 1) ELSE p

RECURSIVE DigitsValue(_, _, _, _)
\* The number written by the digits s[p .. q-1], continuing from acc.
DigitsValue(s, p, q, acc) ==
    IF p >= q THEN acc ELSE DigitsValue(s, p + 1, q, 10 * acc + (s[p] - 48))

\* parseNumber: [+-] digits [. digits] [(e|E) [+-] digits], the whole token.
ParseNumber(buf) ==
    LET n == Len(buf)
        neg == n >= 1 /\ buf[1] = 45
        i == IF n >= 1 /\ (buf[1] = 45 \/ buf[1] = 43) THEN 2 ELSE 1
        j == DigitRunEnd(buf, i)
        hasFrac == j <= n /\ buf[j] = 46
        k == IF hasFrac THEN DigitRunEnd(buf, j + 1) ELSE j
        hasExp == k <= n /\ (buf[k] = 101 \/ buf[k] = 69)
        negExp == hasExp /\ k + 1 <= n /\ buf[k + 1] = 45
        x == IF ~hasExp THEN k
             ELSE IF k + 1 <= n /\ (buf[k + 1] = 45 \/ buf[k + 1] = 43) THEN k + 2
             ELSE k + 1
        l == IF hasExp THEN DigitRunEnd(buf, x) ELSE k
        mant == DigitsValue(buf, IF hasFrac THEN j + 1 ELSE j, k,
                            DigitsValue(buf, i, j, 0))
        fracLen == IF hasFrac THEN k - (j + 1) ELSE 0
        expo == IF hasExp THEN DigitsValue(buf, x, l, 0) ELSE 0
    IN  IF i > n \/ ~(IsDigit(buf[i]) \/ buf[i] = 46) THEN [ok |-> FALSE, val |-> JNull]
        ELSE IF l # n + 1 THEN [ok |-> FALSE, val |-> JNull]
        ELSE [ok |-> TRUE,
              val |-> JNum(IF neg THEN 0 - mant ELSE mant,
                           (IF negExp THEN 0 - expo ELSE expo) - fracLen)]

Failed(err, p) == [err |-> err, pos |-> p, val |-> JNull]

Parsed(p, v) == [err |-> "Ok", pos |-> p, val |-> v]

\* The character an escape sequence \c stands for, or -1 when c is no escape.
Unescape(c) ==
    CASE c = 34 -> 34
      [] c = 47 -> 47
      [] c = 92 -> 92
      [] c = 98 -> 8
      [] c = 102 -> 12
      [] c = 110 -> 10
      [] c = 114 -> 13
      [] c = 116 -> 9
      [] OTHER -> -1

RECURSIVE QuotedLoop(_, _, _, _)
\* Reads up to the closing quote; p is the next character to read.
QuotedLoop(s, p, stopChar, acc) ==
    IF p > Len(s) THEN Failed("IncompleteInput", p)
    ELSE IF s[p] = stopChar THEN Parsed(p + 1, JStr(acc))
    ELSE IF s[p] = ChBackslash
         THEN IF p + 1 > Len(s) THEN Failed("IncompleteInput", p + 1)
              ELSE IF s[p + 1] = 117 THEN Failed("NotSupported", p + 1)
              ELSE IF Unescape(s[p + 1]) = -1 THEN Failed("InvalidInput", p + 1)
              ELSE QuotedLoop(s, p + 2, stopChar, Append(acc, Unescape(s[p + 1])))
    ELSE QuotedLoop(s, p + 1, stopChar, Append(acc, s[p]))

ParseQuotedString(s, p) == QuotedLoop(s, p + 1, s[p], <<>>)

RECURSIVE NonQuotedEnd(_, _)
NonQuotedEnd(s, p) ==
    IF p <= Len(s) /\ CanBeInNonQuotedString(s[p]) THEN NonQuotedEnd(s, p + 1) ELSE p

\* An unquoted key: one or more CanBeInNonQuotedString characters.
ParseNonQuotedString(s, p) ==
    LET q == NonQuotedEnd(s, p)
    IN  IF q = p THEN Failed("InvalidInput", p)
        ELSE Parsed(q, JStr(SubSeq(s, p, q - 1)))

\* A key: a quoted string ("..." or '...') or an unquoted word.
ParseKey(s, p) ==
    IF s[p] = ChQuote \/ s[p] = ChApos THEN ParseQuotedString(s, p)
    ELSE ParseNonQuotedString(s, p)

\* skipKeyword: the characters of the literal, one by one.
ParseKeyword(s, p, lit, v) ==
    LET bad == {i \in 1..Len(lit) : p + i - 1 > Len(s) \/ s[p + i - 1] # lit[i]}
        first == CHOOSE i \in bad : \A j \in bad : i <= j
    IN  IF bad = {} THEN Parsed(p + Len(lit), v)
        ELSE IF p + first - 1 > Len(s) THEN Failed("IncompleteInput", p + first - 1)
        ELSE Failed("InvalidInput", p + first - 1)

RECURSIVE NumberEnd(_, _)
NumberEnd(s, p) ==
    IF p <= Len(s) /\ CanBeInNumber(s[p]) THEN NumberEnd(s, p + 1) ELSE p

\* parseNumericValue: collect the number's characters, then parseNumber.
ParseNumericValue(s, p) ==
    LET q == NumberEnd(s, p)
        r == ParseNumber(SubSeq(s, p, q - 1))
    IN  IF r.ok THEN Parsed(q, r.val) ELSE Failed("InvalidInput", p)

RECURSIVE ParseVariant(_, _, _)
RECURSIVE ArrayLoop(_, _, _, _)
RECURSIVE ObjectLoop(_, _, _, _)

\* parseArray after '[': elements separated by ',' up to ']'.
ArrayLoop(s, p, nesting, items) ==
    LET r == ParseVariant(s, p, nesting - 1)
        q == SkipSpaces(s, r.pos)
    IN  IF r.err # "Ok" THEN r
        ELSE IF q > Len(s) THEN Failed("IncompleteInput", q)
        ELSE IF s[q] = ChRBracket THEN Parsed(q + 1, JArr(Append(items, r.val)))
        ELSE IF s[q] = ChComma THEN ArrayLoop(s, q + 1, nesting, Append(items, r.val))
        ELSE Failed("InvalidInput", q)

ParseArray(s, p, nesting) ==
    LET q == SkipSpaces(s, p + 1)
    IN  IF nesting = 0 THEN Failed("TooDeep", p)
        ELSE IF q > Len(s) THEN Failed("IncompleteInput", q)
        ELSE IF s[q] = ChRBracket THEN Parsed(q + 1, JArr(<<>>))
        ELSE ArrayLoop(s, q, nesting, <<>>)

\* The members with the value of key k (re)written: a key met again keeps its
\* place and takes the new value.
SetMember(members, k, v) ==
    IF \E i \in 1..Len(members) : members[i].k = k
    THEN [i \in 1..Len(members) |->
             IF members[i].k = k THEN [k |-> k, v |-> v] ELSE members[i]]
    ELSE Append(members, [k |-> k, v |-> v])

\* parseObject at a key: key ':' value, then ',' or '}'.
ObjectLoop(s, p, nesting, members) ==
    LET key == ParseKey(s, p)
        c == SkipSpaces(s, key.pos)
        r == ParseVariant(s, c + 1, nesting - 1)
        q == SkipSpaces(s, r.pos)
        n == SkipSpaces(s, q + 1)
    IN  IF key.err # "Ok" THEN key
        ELSE IF c > Len(s) THEN Failed("IncompleteInput", c)
        ELSE IF s[c] # ChColon THEN Failed("InvalidInput", c)
        ELSE IF r.err # "Ok" THEN r
        ELSE IF q > Len(s) THEN Failed("IncompleteInput", q)
        ELSE IF s[q] = ChRBrace
             THEN Parsed(q + 1, JObj(SetMember(members, key.val.s, r.val)))
        ELSE IF s[q] # ChComma THEN Failed("InvalidInput", q)
        ELSE IF n > Len(s) THEN Failed("IncompleteInput", n)
        ELSE ObjectLoop(s, n, nesting, SetMember(members, key.val.s, r.val))

ParseObject(s, p, nesting) ==
    LET q == SkipSpaces(s, p + 1)
    IN  IF nesting = 0 THEN Failed("TooDeep", p)
        ELSE IF q > Len(s) THEN Failed("IncompleteInput", q)
        ELSE IF s[q] = ChRBrace THEN Parsed(q + 1, JObj(<<>>))
        ELSE ObjectLoop(s, q, nesting, <<>>)

\* parseVariant: skip whitespace, then dispatch on the first character.
ParseVariant(s, p, nesting) ==
    LET q == SkipSpaces(s, p)
    IN  IF q > Len(s) THEN Failed("IncompleteInput", q)
        ELSE IF s[q] = ChLBracket THEN ParseArray(s, q, nesting)
        ELSE IF s[q] = ChLBrace THEN ParseObject(s, q, nesting)
        ELSE IF s[q] = ChQuote \/ s[q] = ChApos THEN ParseQuotedString(s, q)
        ELSE IF s[q] = 116 THEN ParseKeyword(s, q, LitTrue, JBool(TRUE))
        ELSE IF s[q] = 102 THEN ParseKeyword(s, q, LitFalse, JBool(FALSE))
        ELSE IF s[q] = 110 THEN ParseKeyword(s, q, LitNull, JNull)
        ELSE ParseNumericValue(s, q)

\* deserializeJson(jsonDocument, jsonString): reads one JSON value from the
\* start of the text; what follows the value is not read.
deserializeJson(jsonString) ==
    IF SkipSpaces(jsonString, 1) > Len(jsonString)
    THEN Failed("EmptyInput", 1)
    ELSE ParseVariant(jsonString, 1, NestingLimit)

\* jsonDocument.containsKey(key)
containsKey(doc, key) ==
    doc.t = "obj" /\ \E i \in 1..Len(doc.members) : doc.members[i].k = key

\* jsonDocument[key]
Member(doc, key) ==
    LET i == CHOOSE i \in 1..Len(doc.members) : doc.members[i].k = key
    IN  doc.members[i].v

\* ------------------------------------------------------------------------
\* Conversions of a JSON value to the type of a record field
\* ------------------------------------------------------------------------
Abs(n) == IF n < 0 THEN 0 - n ELSE n

\* A number m * 10^e as an integer, truncated toward zero.
Truncate(num) ==
    IF num.e >= 0 THEN num.m * Pow10(num.e)
    ELSE (IF num.m < 0 THEN -1 ELSE 1) * (Abs(num.m) \div Pow10(0 - num.e))

\* The number a value converts to: numbers as they are, booleans 1 / 0, a
\* string the number it spells (0 when it spells none), anything else 0.
AsNumber(v) ==
    CASE v.t = "num" -> v
      [] v.t = "bool" -> JNum(IF v.b THEN 1 ELSE 0, 0)
      [] v.t = "str" -> IF ParseNumber(v.s).ok THEN ParseNumber(v.s).val ELSE JNum(0, 0)
      [] OTHER -> JNum(0, 0)

\* Conversion to int.
AsInt(v) == Truncate(AsNumber(v))

\* Conversion to float, kept as the exact decimal [m, e].
AsFloat(v) == [m |-> AsNumber(v).m, e |-> AsNumber(v).e]

\* Conversion to unsigned long: a negative number is out of range and gives 0.
AsUnsignedLong(v) == IF Truncate(AsNumber(v)) < 0 THEN 0 ELSE Truncate(AsNumber(v))

RECURSIVE Digits(_)
\* The decimal digits of n >= 0.
Digits(n) == IF n < 10 THEN <<48 + n>> ELSE Append(Digits(n \div 10), 48 + (n % 10))

RECURSIVE Zeros(_)
Zeros(n) == IF n <= 0 THEN <<>> ELSE <<48>> \o Zeros(n - 1)

\* The text of the number m * 10^e in plain decimal notation.
NumText(num) ==
    LET sign == IF num.m < 0 THEN <<ChMinus>> ELSE <<>>
        d == Digits(Abs(num.m))
        f == 0 - num.e
        padded == Zeros(f + 1 - Len(d)) \o d
    IN  IF num.e >= 0 THEN sign \o d \o Zeros(num.e)
        ELSE sign \o SubSeq(padded, 1, Len(padded) - f) \o <<ChDot>>
                  \o SubSeq(padded, Len(padded) - f + 1, Len(padded))

RECURSIVE EscapeText(_)
\* A string's characters with '"' and '\' escaped.
EscapeText(s) ==
    IF s = <<>> THEN <<>>
    ELSE (IF Head(s) = ChQuote \/ Head(s) = ChBackslash
          THEN <<ChBackslash, Head(s)>> ELSE <<Head(s)>>) \o EscapeText(Tail(s))

QuoteText(s) == <<ChQuote>> \o EscapeText(s) \o <<ChQuote>>

RECURSIVE Serialize(_)
RECURSIVE SerializeItems(_, _)
RECURSIVE SerializeMembers(_, _)

SerializeItems(items, i) ==
    IF i > Len(items) THEN <<>>
    ELSE (IF i > 1 THEN <<ChComma>> ELSE <<>>) \o Serialize(items[i])
         \o SerializeItems(items, i + 1)

SerializeMembers(members, i) ==
    IF i > Len(members) THEN <<>>
    ELSE (IF i > 1 THEN <<ChComma>> ELSE <<>>) \o QuoteText(members[i].k)
         \o <<ChColon>> \o Serialize(members[i].v) \o SerializeMembers(members, i + 1)

\* serializeJson: the compact JSON text of a value.
Serialize(v) ==
    CASE v.t = "null" -> LitNull
      [] v.t = "bool" -> IF v.b THEN LitTrue ELSE LitFalse
      [] v.t = "num" -> NumText(v)
      [] v.t = "str" -> QuoteText(v.s)
      [] v.t = "arr" -> <<ChLBracket>> \o SerializeItems(v.items, 1) \o <<ChRBracket>>
      [] v.t = "obj" -> <<ChLBrace>> \o SerializeMembers(v.members, 1) \o <<ChRBrace>>

\* as<String>(): a string's characters, any other value its JSON text.
AsString(v) == IF v.t = "str" THEN v.s ELSE Serialize(v)

\* ------------------------------------------------------------------------
\* 4.3 Sensor record parser: parseJSONSensorData
\* ------------------------------------------------------------------------
ZeroFloat == [m |-> 0, e |-> 0]

\* SensorDataPacket {0, 0.0, 0.0, 0.0, "", 0, false}
DefaultPacket ==
    [carbonDioxideLevel |-> 0, thermalComfortIndex |-> ZeroFloat,
     ambientTemperature |-> ZeroFloat, relativeHumidity |-> ZeroFloat,
     comfortLevelDescription |-> <<>>, dataTimestamp |-> 0, hasValidData |-> FALSE]

\* The field extraction of a parsed document, hasValidData set at the end.
ExtractFieldsMutant(doc) ==
    [carbonDioxideLevel |->
         IF containsKey(doc, K_co2) THEN AsInt(Member(doc, K_co2)) ELSE 0,
     thermalComfortIndex |->
         IF containsKey(doc, K_co2) THEN AsFloat(Member(doc, K_co2)) ELSE ZeroFloat,
     ambientTemperature |->
         IF containsKey(doc, K_temperature)
         THEN AsFloat(Member(doc, K_temperature)) ELSE ZeroFloat,
     relativeHumidity |->
         IF containsKey(doc, K_humidity)
         THEN AsFloat(Member(doc, K_humidity)) ELSE ZeroFloat,
     comfortLevelDescription |->
         IF containsKey(doc, K_comfort_level)
         THEN AsString(Member(doc, K_comfort_level)) ELSE <<>>,
     dataTimestamp |->
         IF containsKey(doc, K_timestamp)
         THEN AsUnsignedLong(Member(doc, K_timestamp)) ELSE 0,
     hasValidData |-> TRUE]

ExtractFields(doc) ==
    [carbonDioxideLevel |->
         IF containsKey(doc, K_co2) THEN AsInt(Member(doc, K_co2)) ELSE 0,
     thermalComfortIndex |->
         IF containsKey(doc, K_thi) THEN AsFloat(Member(doc, K_thi)) ELSE ZeroFloat,
     ambientTemperature |->
         IF containsKey(doc, K_temperature)
         THEN AsFloat(Member(doc, K_temperature)) ELSE ZeroFloat,
     relativeHumidity |->
         IF containsKey(doc, K_humidity)
         THEN AsFloat(Member(doc, K_humidity)) ELSE ZeroFloat,
     comfortLevelDescription |->
         IF containsKey(doc, K_comfort_level)
         THEN AsString(Member(doc, K_comfort_level)) ELSE <<>>,
     dataTimestamp |->
         IF containsKey(doc, K_timestamp)
         THEN AsUnsignedLong(Member(doc, K_timestamp)) ELSE 0,
     hasValidData |-> TRUE]

\* The record returned on a parse error: extractedData as initialized.
ParseErrorPacketMutant == [DefaultPacket EXCEPT !.carbonDioxideLevel = -1]

ParseErrorPacket == DefaultPacket

parseJSONSensorDataMutant(jsonString) ==
    LET parsed == deserializeJson(jsonString)
    IN  IF parsed.err # "Ok" THEN ParseErrorPacket
        ELSE [ExtractFields(parsed.val) EXCEPT
                 !.hasValidData = \E i \in 1..Len(parsed.val.members) :
                                      parsed.val.members[i].k = K_co2]

parseJSONSensorData(jsonString) ==
    LET parsed == deserializeJson(jsonString)
    IN  IF parsed.err # "Ok" THEN ParseErrorPacket
        ELSE ExtractFields(parsed.val)

\* ------------------------------------------------------------------------
\* Inputs of the function checks
\* ------------------------------------------------------------------------
MaxBufLen == 3

\* Byte values around the limits of the decoder and of the validator.
ByteAlphabet == {0, 9, 31, 32, 65, 123, 125, 126, 127}

RawBuffers == UNION {[1..n -> ByteAlphabet] : n \in 0..MaxBufLen}

\* Texts that pass the structural gate and are not JSON:
\* {"co2":}  {garbage}  {"a":{"b":1}  {"co2" 415}  {"co2":415,}  {,}
\* {"co2":4x}  {"a":"\q"}  {"a":tru}  {"a":[1,}  {"a":[[[[[[[[[[1]]]]]]]]]]}
MalformedTexts ==
    {<<123, 34, 99, 111, 50, 34, 58, 125>>,
     <<123, 103, 97, 114, 98, 97, 103, 101, 125>>,
     <<123, 34, 97, 34, 58, 123, 34, 98, 34, 58, 49, 125>>,
     <<123, 34, 99, 111, 50, 34, 32, 52, 49, 53, 125>>,
     <<123, 34, 99, 111, 50, 34, 58, 52, 49, 53, 44, 125>>,
     <<123, 44, 125>>,
     <<123, 34, 99, 111, 50, 34, 58, 52, 120, 125>>,
     <<123, 34, 97, 34, 58, 34, 92, 113, 34, 125>>,
     <<123, 34, 97, 34, 58, 116, 114, 117, 125>>,
     <<123, 34, 97, 34, 58, 91, 49, 44, 125>>,
     <<123, 34, 97, 34, 58, 91, 91, 91, 91, 91, 91, 91, 91, 91, 91, 49, 93, 93, 93, 93, 93, 93, 93, 93, 93, 93, 125>>}

\* Texts that start with a JSON value:
\* {}  ' {} '  { }  {"co2":415,"thi":21.5}  {'co2':415}  {co2:415}
\* {"co2":"415"}  {"co2":-3.9,"timestamp":-5}
\* {"co2":true,"comfort_level":12}  {"thi":2e1,"humidity":.5}
\* {"co2":1,"co2":2}  {"comfort_level":null}
\* {"comfort_level":"a\"b","x":[1,{"y":[]}]}  {"a":[[[[[[[[[1]]]]]]]]]}
\* {"co2":7}}  {"co2":415} }
WellFormedTexts ==
    {<<123, 125>>,
     <<32, 123, 125, 32>>,
     <<123, 32, 125>>,
     <<123, 34, 99, 111, 50, 34, 58, 52, 49, 53, 44, 34, 116, 104, 105, 34, 58, 50, 49, 46, 53, 125>>,
     <<123, 39, 99, 111, 50, 39, 58, 52, 49, 53, 125>>,
     <<123, 99, 111, 50, 58, 52, 49, 53, 125>>,
     <<123, 34, 99, 111, 50, 34, 58, 34, 52, 49, 53, 34, 125>>,
     <<123, 34, 99, 111, 50, 34, 58, 45, 51, 46, 57, 44, 34, 116, 105, 109, 101, 115, 116, 97, 109, 112, 34, 58, 45, 53, 125>>,
     <<123, 34, 99, 111, 50, 34, 58, 116, 114, 117, 101, 44, 34, 99, 111, 109, 102, 111, 114, 116, 95, 108, 101, 118, 101, 108, 34, 58, 49, 50, 125>>,
     <<123, 34, 116, 104, 105, 34, 58, 50, 101, 49, 44, 34, 104, 117, 109, 105, 100, 105, 116, 121, 34, 58, 46, 53, 125>>,
     <<123, 34, 99, 111, 50, 34, 58, 49, 44, 34, 99, 111, 50, 34, 58, 50, 125>>,
     <<123, 34, 99, 111, 109, 102, 111, 114, 116, 95, 108, 101, 118, 101, 108, 34, 58, 110, 117, 108, 108, 125>>,
     <<123, 34, 99, 111, 109, 102, 111, 114, 116, 95, 108, 101, 118, 101, 108, 34, 58, 34, 97, 92, 34, 98, 34, 44, 34, 120, 34, 58, 91, 49, 44, 123, 34, 121, 34, 58, 91, 93, 125, 93, 125>>,
     <<123, 34, 97, 34, 58, 91, 91, 91, 91, 91, 91, 91, 91, 91, 49, 93, 93, 93, 93, 93, 93, 93, 93, 93, 125>>,
     <<123, 34, 99, 111, 50, 34, 58, 55, 125, 125>>,
     <<123, 34, 99, 111, 50, 34, 58, 52, 49, 53, 125, 32, 125>>}

\* Texts the structural gate rejects, and JSON values that are no object:
\* ''  ' '  '{'  '}'  '}{'  '[1]'  '415'  '"{}"'  'null'  ' { '  '{"co2":415}
\* x'
OtherTexts ==
    {<<>>,
     <<32>>,
     <<123>>,
     <<125>>,
     <<125, 123>>,
     <<91, 49, 93>>,
     <<52, 49, 53>>,
     <<34, 123, 125, 34>>,
     <<110, 117, 108, 108>>,
     <<32, 123, 32>>,
     <<123, 34, 99, 111, 50, 34, 58, 52, 49, 53, 125, 32, 120>>}

\* Sensor messages as a producer builds them: the set of keys present, an
\* optional key the firmware does not know, and one of two sets of values.
KeyNames == {"co2", "thi", "temperature", "humidity", "comfort_level", "timestamp"}

Co2Of(variant) == IF variant = 1 THEN 415 ELSE 1200

ThiOf(variant) == IF variant = 1 THEN [m |-> 215, e |-> -1] ELSE [m |-> 78, e |-> 0]

TemperatureValue == [m |-> 2525, e |-> -2]

HumidityValue == [m |-> 6, e |-> 1]

\* "Hot"
ComfortValue == <<72, 111, 116>>

TimestampValue == 1700000000

SensorMessages ==
    [isMsg : {TRUE}, has : SUBSET KeyNames, unknown : BOOLEAN, variant : {1, 2}]

NoMessage == [isMsg |-> FALSE, has |-> {}, unknown |-> FALSE, variant |-> 1]

RECURSIVE JoinMembers(_)
\* The members' texts separated by commas.
JoinMembers(parts) ==
    IF parts = <<>> THEN <<>>
    ELSE IF Len(parts) = 1 THEN parts[1]
    ELSE parts[1] \o <<ChComma>> \o JoinMembers(Tail(parts))

MemberText(key, valueText) == QuoteText(key) \o <<ChColon>> \o valueText

\* The JSON text a producer sends for a message: the keys present, in the
\* order of section 6, an unknown key "note" in the middle.
WireText(msg) ==
    LET part(name, text) == IF name \in msg.has THEN <<text>> ELSE <<>>
        parts ==
            part("co2", MemberText(K_co2, Digits(Co2Of(msg.variant))))
            \o part("thi", MemberText(K_thi, NumText(ThiOf(msg.variant))))
            \o part("temperature", MemberText(K_temperature, NumText(TemperatureValue)))
            \o (IF msg.unknown
                THEN <<MemberText(<<110, 111, 116, 101>>, QuoteText(<<120>>))>>
                ELSE <<>>)
            \o part("humidity", MemberText(K_humidity, NumText(HumidityValue)))
            \o part("comfort_level", MemberText(K_comfort_level, QuoteText(ComfortValue)))
            \o part("timestamp", MemberText(K_timestamp, Digits(TimestampValue)))
    IN  <<ChLBrace>> \o JoinMembers(parts) \o <<ChRBrace>>

FnInputs ==
    {[bytes |-> x, msg |-> NoMessage] :
        x \in RawBuffers \cup MalformedTexts \cup WellFormedTexts \cup OtherTexts}
    \cup {[bytes |-> WireText(m), msg |-> m] : m \in SensorMessages}

\* ------------------------------------------------------------------------
\* 32-bit unsigned arithmetic of millis() and unsigned long, on two 16-bit
\* limbs [hi, lo]
\* ------------------------------------------------------------------------
U32(n) == [hi |-> (n \div Limb) % Limb, lo |-> n % Limb]

\* (a + d) mod 2^32, for 0 <= d < 2^31
Add32(a, d) ==
    LET lo == a.lo + (d % Limb)
    IN  [hi |-> (a.hi + (d \div Limb) + (lo \div Limb)) % Limb, lo |-> lo % Limb]

\* (a - b) mod 2^32
Sub32(a, b) ==
    LET borrow == IF a.lo < b.lo THEN 1 ELSE 0
    IN  [hi |-> (a.hi - b.hi - borrow + 2 * Limb) % Limb,
         lo |-> (a.lo - b.lo + Limb) % Limb]

\* a >= n, for 0 <= n < 2^16
AtLeast32(a, n) == a.hi > 0 \/ a.lo >= n

\* ------------------------------------------------------------------------
\* Bounds and environment samples of the firmware model
\* ------------------------------------------------------------------------
MaxPasses == 3
MaxWifiWaits == 1
MaxMqttFailures == 1

\* Time between two readings of millis(): the delays executed in between
\* plus the time the other steps took.  After setup at least the three fixed
\* delays of setup have passed; a pass of loop() takes at least its delay; a
\* pass that reconnected to the broker stalled for retries of 5 s each and
\* the 1 s success message (429496 retries are 24.8 days).
ElapsedSamples(since) ==
    CASE since = "boot" ->
             {2 * CONNECTION_SUCCESS_DISPLAY_TIME + 1000,
              2 * CONNECTION_SUCCESS_DISPLAY_TIME + 1000 + 100}
      [] since = "pass" ->
             {MAIN_LOOP_DELAY_MILLISECONDS,
              INTERACTIVE_DISPLAY_INTERVAL_MILLISECONDS - MAIN_LOOP_DELAY_MILLISECONDS,
              INTERACTIVE_DISPLAY_INTERVAL_MILLISECONDS}
      [] since = "reconnect" ->
             {1000 + MAIN_LOOP_DELAY_MILLISECONDS,
              429496 * MQTT_RECONNECTION_DELAY_MILLISECONDS + 1000
                  + MAIN_LOOP_DELAY_MILLISECONDS}

\* Epochs the time client reports (UTC offset included): not yet
\* synchronized (offset plus uptime), and synchronized: the threshold
\* itself, 00:10:00, 00:11:00 and 01:10:00 of 2023-01-01.
UnsyncedEpochs == {32400, 32460}

SyncedEpochs == {1672531200, 1672531800, 1672531860, 1672535400}

\* timeClient.getMinutes() and getHours()
getMinutes(epoch) == (epoch % 3600) \div 60

getHours(epoch) == (epoch % 86400) \div 3600

\* Payloads delivered by the broker:
\*   {"co2":415,"thi":21.5}
\*   {"co2":1200,"thi":78,"comfort_level":"Hot"}
\*   the bytes 0 '{' 31 '}' 10, which decode to {}
\*   {"co2":}
\*   co2=415
PayloadPartial == <<123, 34, 99, 111, 50, 34, 58, 52, 49, 53, 44, 34, 116, 104, 105, 34, 58, 50, 49, 46, 53, 125>>

PayloadFull ==
    <<123, 34, 99, 111, 50, 34, 58, 49, 50, 48, 48, 44, 34, 116, 104, 105, 34, 58, 55, 56, 44>>
    \o <<34, 99, 111, 109, 102, 111, 114, 116, 95, 108, 101, 118, 101, 108, 34, 58, 34, 72, 111, 116, 34, 125>>

PayloadEmptyObject == <<0, 123, 31, 125, 10>>

PayloadParseFail == <<123, 34, 99, 111, 50, 34, 58, 125>>

PayloadNoObject == <<99, 111, 50, 61, 52, 49, 53>>

Payloads ==
    {PayloadPartial, PayloadFull, PayloadEmptyObject, PayloadParseFail, PayloadNoObject}

\* ------------------------------------------------------------------------
\* 4.4 The LCD: what a redraw leaves on the screen
\* ------------------------------------------------------------------------
\* String(int): the decimal text of an integer.
IntText(n) == (IF n < 0 THEN <<ChMinus>> ELSE <<>>) \o Digits(Abs(n))

\* String(float, 1): the number rounded to one decimal.
FloatText1(f) ==
    LET k == 0 - f.e - 1
        tenths == IF f.e >= -1 THEN Abs(f.m) * Pow10(f.e + 1)
                  ELSE (Abs(f.m) + 5 * Pow10(k - 1)) \div Pow10(k)
    IN  (IF f.m < 0 THEN <<ChMinus>> ELSE <<>>)
        \o Digits(tenths \div 10) \o <<ChDot>> \o Digits(tenths % 10)

Screen(view, text, note) == [view |-> view, text |-> text, note |-> note]

\* displayCO2ConcentrationData
Co2Screen(reading) == Screen("co2", IntText(reading.carbonDioxideLevel), "CO2:")

\* displayTHIComfortData
ThiScreen(reading) == Screen("thi", FloatText1(reading.thermalComfortIndex), "THI:")

\* displayNoDataAvailableMessage
NoDataScreen == Screen("nodata", <<>>, "No Data")

\* displayJSONParsingError(errorDescription)
displayJSONParsingError(errorDescription) == Screen("jsonerror", <<>>, errorDescription)

\* showConnectionStatusMessage(statusMessage) and the messages printed after it
StatusScreen(statusMessage) == Screen("status", <<>>, statusMessage)

refreshEntireDisplayMutant(reading, showCO2) ==
    IF showCO2 THEN Co2Screen(reading) ELSE ThiScreen(reading)

\* refreshEntireDisplay: title, time and MQTT status, then the metric
\* selected by displayCO2 when the record is valid, "No Data" otherwise.
refreshEntireDisplay(reading, showCO2) ==
    IF reading.hasValidData
    THEN IF showCO2 THEN Co2Screen(reading) ELSE ThiScreen(reading)
    ELSE NoDataScreen

\* updateCurrentSensorData: currentSensorReading = newSensorData
updateCurrentSensorDataMutant(current, newSensorData) ==
    [newSensorData EXCEPT
        !.carbonDioxideLevel =
            IF @ = 0 THEN current.carbonDioxideLevel ELSE @,
        !.thermalComfortIndex =
            IF @ = ZeroFloat THEN current.thermalComfortIndex ELSE @,
        !.comfortLevelDescription =
            IF @ = <<>> THEN current.comfortLevelDescription ELSE @]

updateCurrentSensorData(current, newSensorData) == newSensorData

\* ------------------------------------------------------------------------
\* The firmware: setup(), then loop() for ever
\* ------------------------------------------------------------------------
\* No redraw, no message (before: the record held when a message arrived),
\* no evaluation of the interval, no write to the Digi-Clock unit.
NoEvent ==
    [drawnBy |-> "none", rx |-> "none", payload |-> <<>>, before |-> DefaultPacket,
     tick |-> "none", digiWrite |-> "none"]

\* No interval tick has fired, no message was accepted.
NoHistory ==
    [firstValidView |-> "none", prevValidView |-> "none", lastValidView |-> "none",
     firedTicks |-> 0, prevTickTime |-> U32(0), lastTickTime |-> U32(0),
     accepted |-> <<>>]

fnVars == <<fnInput, fnMsg, fnOp, fnString, fnAccept, fnPacket>>

progVars ==
    <<pc, mqttReturn, wifiWaits, ntpAttempt, timeSynced, epochTime,
      mqttCallbackSet, mqttConnected, mqttSubscribed, mqttFailures,
      digiClockPresent, digiClockString, last_digiclock_minute,
      currentSensorReading, displayCO2, lastInteractiveDisplayTime,
      millisCounter, sinceRead, screen, passes, ev, clockLog, displayHistory>>

vars ==
    <<pc, mqttReturn, wifiWaits, ntpAttempt, timeSynced, epochTime,
      mqttCallbackSet, mqttConnected, mqttSubscribed, mqttFailures,
      digiClockPresent, digiClockString, last_digiclock_minute,
      currentSensorReading, displayCO2, lastInteractiveDisplayTime,
      millisCounter, sinceRead, screen, passes, ev, clockLog, displayHistory,
      fnInput, fnMsg, fnOp, fnString, fnAccept, fnPacket>>

mqttVars == <<mqttReturn, mqttCallbackSet, mqttConnected, mqttSubscribed, mqttFailures>>

timeVars == <<ntpAttempt, timeSynced, epochTime>>

digiVars == <<digiClockPresent, digiClockString, last_digiclock_minute>>

displayVars == <<currentSensorReading, displayCO2, lastInteractiveDisplayTime>>

\* The globals as initialized, before setup() runs.
ProgInit ==
    /\ pc = "setup"
    /\ mqttReturn = "setup"
    /\ wifiWaits = 0
    /\ ntpAttempt = 0
    /\ timeSynced = FALSE
    /\ epochTime = 32400
    /\ mqttCallbackSet = FALSE
    /\ mqttConnected = FALSE
    /\ mqttSubscribed = FALSE
    /\ mqttFailures = 0
    /\ digiClockPresent = FALSE
    /\ digiClockString = <<>>
    /\ last_digiclock_minute = -1
    /\ currentSensorReading = DefaultPacket
    /\ displayCO2 = TRUE
    /\ lastInteractiveDisplayTime = U32(0)
    /\ millisCounter = U32(0)
    /\ sinceRead = "boot"
    /\ screen = Screen("off", <<>>, "")
    /\ passes = 0
    /\ ev = NoEvent
    /\ clockLog = <<>>
    /\ displayHistory = NoHistory

FnIdle ==
    /\ fnInput = <<>>
    /\ fnMsg = NoMessage
    /\ fnOp = "none"
    /\ fnString = <<>>
    /\ fnAccept = FALSE
    /\ fnPacket = DefaultPacket

Init == ProgInit /\ FnIdle

\* setup() lines 125-130: initializeDisplaySystem, showSystemStartupMessage.
SetupDisplay ==
    /\ pc = "setup"
    /\ pc' = "digiclock"
    /\ screen' = StatusScreen("Starting...")
    /\ ev' = [NoEvent EXCEPT !.drawnBy = "startup"]
    /\ UNCHANGED <<mqttVars, timeVars, digiVars, displayVars, wifiWaits,
                   millisCounter, sinceRead, passes, fnVars, clockLog, displayHistory>>

\* initializeDigiClock: digi_clock.begin() succeeds, then brightness and
\* "----" are written.
InitializeDigiClockFound ==
    /\ pc = "digiclock"
    /\ pc' = "wifi"
    /\ digiClockPresent' = TRUE
    /\ digiClockString' = <<45, 45, 45, 45>>
    /\ ev' = [NoEvent EXCEPT !.digiWrite = "init"]
    /\ UNCHANGED <<mqttVars, timeVars, last_digiclock_minute, displayVars, wifiWaits,
                   millisCounter, sinceRead, screen, passes, fnVars, clockLog, displayHistory>>

\* initializeDigiClock: digi_clock.begin() fails, "DigiClock ERR" is printed
\* on the LCD for 2 s.
InitializeDigiClockMissing ==
    /\ pc = "digiclock"
    /\ pc' = "wifi"
    /\ screen' = StatusScreen("DigiClock ERR")
    /\ ev' = [NoEvent EXCEPT !.drawnBy = "initializeDigiClock"]
    /\ UNCHANGED <<mqttVars, timeVars, digiVars, displayVars, wifiWaits,
                   millisCounter, sinceRead, passes, fnVars, clockLog, displayHistory>>

\* establishWiFiConnection, one pass of while (!checkWiFiConnectionStatus()):
\* the link is not up yet, wait 500 ms and print a dot.  The loop has no
\* counter; the model counts its passes modulo MaxWifiWaits + 1.
WiFiWait ==
    /\ pc = "wifi"
    /\ wifiWaits' = (wifiWaits + 1) % (MaxWifiWaits + 1)
    /\ screen' = StatusScreen("WiFi connecting...")
    /\ ev' = [NoEvent EXCEPT !.drawnBy = "establishWiFiConnection"]
    /\ UNCHANGED <<pc, mqttVars, timeVars, digiVars, displayVars,
                   millisCounter, sinceRead, passes, fnVars, clockLog, displayHistory>>

\* establishWiFiConnection: the link is up, displayWiFiConnectionSuccess;
\* then synchronizeSystemTimeWithNTP shows "NTP Sync..." and begins.
WiFiConnected ==
    /\ pc = "wifi"
    /\ pc' = "ntp_sync"
    /\ ntpAttempt' = 0
    /\ wifiWaits' = 0
    /\ screen' = StatusScreen("NTP Sync...")
    /\ ev' = [NoEvent EXCEPT !.drawnBy = "synchronizeSystemTimeWithNTP"]
    /\ UNCHANGED <<mqttVars, timeSynced, epochTime, digiVars, displayVars,
                   millisCounter, sinceRead, passes, fnVars, clockLog, displayHistory>>

\* attemptNTPTimeSynchronization, a pass of the for loop in which
\* timeClient.update() returns true: "NTP Synced!" is shown.  update() asks
\* the server only when the client was never updated (or the 60 s update
\* interval has passed, which the ten passes of about 2 s do not reach).
NtpUpdateSucceeds ==
    /\ pc = "ntp_sync"
    /\ ntpAttempt < MAXIMUM_NTP_RETRY_ATTEMPTS
    /\ ~timeSynced
    /\ timeSynced' = TRUE
    /\ \E e \in SyncedEpochs : epochTime' = e
    /\ pc' = "mqtt_config"
    /\ ntpAttempt' = 0
    /\ screen' = StatusScreen("NTP Synced!")
    /\ ev' = [NoEvent EXCEPT !.drawnBy = "displayNTPSynchronizationResult"]
    /\ UNCHANGED <<mqttVars, digiVars, displayVars, wifiWaits,
                   millisCounter, sinceRead, passes, fnVars, clockLog, displayHistory>>

\* attemptNTPTimeSynchronization, a pass in which timeClient.update() returns
\* false: timeClient.forceUpdate() (its result is not looked at), delay, dot.
NtpUpdateFails ==
    /\ pc = "ntp_sync"
    /\ ntpAttempt < MAXIMUM_NTP_RETRY_ATTEMPTS
    /\ ntpAttempt' = ntpAttempt + 1
    /\ \E forced \in BOOLEAN :
          /\ timeSynced' = (timeSynced \/ forced)
          /\ IF forced
             THEN \E e \in SyncedEpochs : e >= epochTime /\ epochTime' = e
             ELSE epochTime' = epochTime
    /\ UNCHANGED <<pc, mqttVars, digiVars, displayVars, wifiWaits,
                   millisCounter, sinceRead, screen, passes, fnVars, clockLog, displayHistory>>
    /\ ev' = NoEvent

\* attemptNTPTimeSynchronization returns false after the last pass:
\* "NTP Failed!" is shown.
NtpGiveUpEarly ==
    /\ pc = "ntp_sync"
    /\ ntpAttempt = MAXIMUM_NTP_RETRY_ATTEMPTS - 1
    /\ pc' = "mqtt_config"
    /\ ntpAttempt' = 0
    /\ screen' = StatusScreen("NTP Failed!")
    /\ ev' = [NoEvent EXCEPT !.drawnBy = "displayNTPSynchronizationResult"]
    /\ UNCHANGED <<mqttVars, timeSynced, epochTime, digiVars, displayVars, wifiWaits,
                   millisCounter, sinceRead, passes, fnVars, clockLog, displayHistory>>

NtpGiveUp ==
    /\ pc = "ntp_sync"
    /\ ntpAttempt = MAXIMUM_NTP_RETRY_ATTEMPTS
    /\ pc' = "mqtt_config"
    /\ ntpAttempt' = 0
    /\ screen' = StatusScreen("NTP Failed!")
    /\ ev' = [NoEvent EXCEPT !.drawnBy = "displayNTPSynchronizationResult"]
    /\ UNCHANGED <<mqttVars, timeSynced, epochTime, digiVars, displayVars, wifiWaits,
                   millisCounter, sinceRead, passes, fnVars, clockLog, displayHistory>>

\* configureMQTTConnection, then establishMQTTBrokerConnection is entered
\* from setup(): "MQTT connecting...".
ConfigureMQTT ==
    /\ pc = "mqtt_config"
    /\ mqttCallbackSet' = TRUE
    /\ mqttReturn' = "setup"
    /\ mqttFailures' = 0
    /\ pc' = "mqtt_connect"
    /\ screen' = StatusScreen("MQTT connecting...")
    /\ ev' = [NoEvent EXCEPT !.drawnBy = "establishMQTTBrokerConnection"]
    /\ UNCHANGED <<mqttConnected, mqttSubscribed, timeVars, digiVars, displayVars,
                   wifiWaits, millisCounter, sinceRead, passes, fnVars, clockLog, displayHistory>>

MqttConnectSucceedsNoResubscribe ==
    /\ pc = "mqtt_connect"
    /\ ~mqttConnected
    /\ mqttConnected' = TRUE
    /\ mqttSubscribed' = (mqttSubscribed \/ mqttReturn = "setup")
    /\ mqttFailures' = 0
    /\ pc' = IF mqttReturn = "setup" THEN "refresh" ELSE "process"
    /\ sinceRead' = IF sinceRead = "pass" THEN "reconnect" ELSE sinceRead
    /\ screen' = StatusScreen("MQTT Connected!")
    /\ ev' = [NoEvent EXCEPT !.drawnBy = "establishMQTTBrokerConnection"]
    /\ UNCHANGED <<mqttReturn, mqttCallbackSet, timeVars, digiVars,
                   displayVars, wifiWaits, millisCounter, passes, fnVars, clockLog, displayHistory>>

\* establishMQTTBrokerConnection, a pass of while (!connected()) in which
\* connect() succeeds: subscribe, "MQTT Connected!", 1 s, leave the loop.
MqttConnectSucceeds ==
    /\ pc = "mqtt_connect"
    /\ ~mqttConnected
    /\ mqttConnected' = TRUE
    /\ mqttSubscribed' = TRUE
    /\ mqttFailures' = 0
    /\ pc' = IF mqttReturn = "setup" THEN "refresh" ELSE "process"
    /\ sinceRead' = IF sinceRead = "pass" THEN "reconnect" ELSE sinceRead
    /\ screen' = StatusScreen("MQTT Connected!")
    /\ ev' = [NoEvent EXCEPT !.drawnBy = "establishMQTTBrokerConnection"]
    /\ UNCHANGED <<mqttReturn, mqttCallbackSet, timeVars, digiVars,
                   displayVars, wifiWaits, millisCounter, passes, fnVars, clockLog, displayHistory>>

\* establishMQTTBrokerConnection, a pass in which connect() fails:
\* "Failed, rc=.. retry in 5s", 5 s, next pass.  The loop has no counter;
\* the model counts its failed passes modulo MaxMqttFailures + 1.
MqttConnectFails ==
    /\ pc = "mqtt_connect"
    /\ ~mqttConnected
    /\ mqttFailures' = (mqttFailures + 1) % (MaxMqttFailures + 1)
    /\ sinceRead' = IF sinceRead = "pass" THEN "reconnect" ELSE sinceRead
    /\ screen' = StatusScreen("Failed, rc= retry in 5s")
    /\ ev' = [NoEvent EXCEPT !.drawnBy = "establishMQTTBrokerConnection"]
    /\ UNCHANGED <<pc, mqttReturn, mqttCallbackSet, mqttConnected, mqttSubscribed,
                   timeVars, digiVars, displayVars, wifiWaits, millisCounter,
                   passes, fnVars, clockLog, displayHistory>>

\* setup() line 146: refreshEntireDisplay, then loop() starts.
SetupRefresh ==
    /\ pc = "refresh"
    /\ pc' = "maintain"
    /\ screen' = refreshEntireDisplay(currentSensorReading, displayCO2)
    /\ ev' = [NoEvent EXCEPT !.drawnBy = "refreshEntireDisplay"]
    /\ UNCHANGED <<mqttVars, timeVars, digiVars, displayVars, wifiWaits,
                   millisCounter, sinceRead, passes, fnVars, clockLog, displayHistory>>

\* maintainMQTTBrokerConnection with the broker connected: nothing to do.
MaintainConnected ==
    /\ pc = "maintain"
    /\ mqttConnected
    /\ pc' = "process"
    /\ ev' = NoEvent
    /\ UNCHANGED <<mqttVars, timeVars, digiVars, displayVars, wifiWaits,
                   millisCounter, sinceRead, screen, passes, fnVars, clockLog, displayHistory>>

\* maintainMQTTBrokerConnection with the connection lost:
\* establishMQTTBrokerConnection is entered from loop().
MaintainReconnect ==
    /\ pc = "maintain"
    /\ ~mqttConnected
    /\ mqttReturn' = "loop"
    /\ mqttFailures' = 0
    /\ pc' = "mqtt_connect"
    /\ screen' = StatusScreen("MQTT connecting...")
    /\ ev' = [NoEvent EXCEPT !.drawnBy = "establishMQTTBrokerConnection"]
    /\ UNCHANGED <<mqttCallbackSet, mqttConnected, mqttSubscribed, timeVars, digiVars,
                   displayVars, wifiWaits, millisCounter, sinceRead, passes, fnVars, clockLog, displayHistory>>

\* handleIncomingMQTTMessage from line 564 on: the parsed record replaces the
\* current one and the screen is refreshed when it has valid data; else
\* "Parse Failed" is shown.  displayCO2 and lastInteractiveDisplayTime are
\* not written.
HandleParsedReplacesAlways(parsedSensorData, current, showCO2, lastTime) ==
    IF parsedSensorData.hasValidData
    THEN [rx |-> "accepted",
          reading |-> updateCurrentSensorData(current, parsedSensorData),
          showCO2 |-> showCO2, lastTime |-> lastTime,
          screen |-> refreshEntireDisplay(
                         updateCurrentSensorData(current, parsedSensorData), showCO2)]
    ELSE [rx |-> "parsefail",
          reading |-> updateCurrentSensorData(current, parsedSensorData),
          showCO2 |-> showCO2, lastTime |-> lastTime,
          screen |-> displayJSONParsingError("Parse Failed")]

HandleParsedFlipsView(parsedSensorData, current, showCO2, lastTime) ==
    IF parsedSensorData.hasValidData
    THEN [rx |-> "accepted",
          reading |-> updateCurrentSensorData(current, parsedSensorData),
          showCO2 |-> ~showCO2, lastTime |-> lastTime,
          screen |-> refreshEntireDisplay(
                         updateCurrentSensorData(current, parsedSensorData), showCO2)]
    ELSE [rx |-> "parsefail", reading |-> current,
          showCO2 |-> showCO2, lastTime |-> lastTime,
          screen |-> displayJSONParsingError("Parse Failed")]

HandleParsedNoDataOnFailure(parsedSensorData, current, showCO2, lastTime) ==
    [rx |-> IF parsedSensorData.hasValidData THEN "accepted" ELSE "parsefail",
     reading |-> updateCurrentSensorData(current, parsedSensorData),
     showCO2 |-> showCO2, lastTime |-> lastTime,
     screen |-> refreshEntireDisplay(
                    updateCurrentSensorData(current, parsedSensorData), showCO2)]

HandleParsed(parsedSensorData, current, showCO2, lastTime) ==
    IF parsedSensorData.hasValidData
    THEN [rx |-> "accepted",
          reading |-> updateCurrentSensorData(current, parsedSensorData),
          showCO2 |-> showCO2, lastTime |-> lastTime,
          screen |-> refreshEntireDisplay(
                         updateCurrentSensorData(current, parsedSensorData), showCO2)]
    ELSE [rx |-> "parsefail", reading |-> current,
          showCO2 |-> showCO2, lastTime |-> lastTime,
          screen |-> displayJSONParsingError("Parse Failed")]

\* handleIncomingMQTTMessage from line 558 on: "Invalid JSON" is shown and
\* the handler returns when the structural check rejects the text.
HandleDecoded(jsonMessageString, current, showCO2, lastTime) ==
    IF ~validateJSONDataIntegrity(jsonMessageString)
    THEN [rx |-> "invalid", reading |-> current,
          showCO2 |-> showCO2, lastTime |-> lastTime,
          screen |-> displayJSONParsingError("Invalid JSON")]
    ELSE HandleParsed(parseJSONSensorData(jsonMessageString), current, showCO2, lastTime)

\* handleIncomingMQTTMessage: the outcome, the record, the view flag, the
\* alternation time and the screen after the message.
handleIncomingMQTTMessage(messagePayload, current, showCO2, lastTime) ==
    HandleDecoded(convertRawPayloadToString(messagePayload), current, showCO2, lastTime)

\* processIncomingMQTTMessages: mqttCommunicationClient.loop() with no
\* publication waiting.
ProcessNoMessageSkipsTick ==
    /\ pc = "process"
    /\ pc' = "ntp"
    /\ ev' = NoEvent
    /\ UNCHANGED <<mqttVars, timeVars, digiVars, displayVars, wifiWaits,
                   millisCounter, sinceRead, screen, passes, fnVars, clockLog, displayHistory>>

ProcessNoMessage ==
    /\ pc = "process"
    /\ pc' = "tick"
    /\ ev' = NoEvent
    /\ UNCHANGED <<mqttVars, timeVars, digiVars, displayVars, wifiWaits,
                   millisCounter, sinceRead, screen, passes, fnVars, clockLog, displayHistory>>

\* processIncomingMQTTMessages: loop() reads one publication and calls the
\* callback handleIncomingMQTTMessage with its payload.
processIncomingMQTTMessages ==
    /\ pc = "process"
    /\ mqttConnected /\ mqttSubscribed /\ mqttCallbackSet
    /\ \E messagePayload \in Payloads :
          \E r \in {handleIncomingMQTTMessage(messagePayload, currentSensorReading,
                                              displayCO2, lastInteractiveDisplayTime)} :
              /\ currentSensorReading' = r.reading
              /\ displayCO2' = r.showCO2
              /\ lastInteractiveDisplayTime' = r.lastTime
              /\ screen' = r.screen
              /\ ev' = [NoEvent EXCEPT
                           !.rx = r.rx, !.payload = messagePayload,
                           !.before = currentSensorReading,
                           !.drawnBy = IF r.rx = "accepted" THEN "refreshEntireDisplay"
                                       ELSE "displayJSONParsingError"]
    /\ pc' = "tick"
    /\ UNCHANGED <<mqttVars, timeVars, digiVars, wifiWaits, millisCounter, sinceRead,
                   passes, fnVars>>

\* loop() line 162: processIncomingMQTTMessages delivering a publication.
ProcessMessage ==
    /\ processIncomingMQTTMessages
    /\ UNCHANGED <<clockLog, displayHistory>>

\* updateDisplayIfIntervalElapsed with currentSystemTime = millis(): whether
\* the interval has elapsed, and then the screen, the view flag and the
\* time of the last alternation.
TickResultFlipsAlways(currentSystemTime, current, showCO2, lastTime, shown) ==
    IF AtLeast32(Sub32(currentSystemTime, lastTime),
                 INTERACTIVE_DISPLAY_INTERVAL_MILLISECONDS)
    THEN [fired |-> TRUE,
          screen |-> IF current.hasValidData
                     THEN IF showCO2 THEN Co2Screen(current) ELSE ThiScreen(current)
                     ELSE NoDataScreen,
          showCO2 |-> ~showCO2,
          lastTime |-> currentSystemTime]
    ELSE [fired |-> FALSE, screen |-> shown, showCO2 |-> showCO2, lastTime |-> lastTime]

TickResultNeverFlips(currentSystemTime, current, showCO2, lastTime, shown) ==
    IF AtLeast32(Sub32(currentSystemTime, lastTime),
                 INTERACTIVE_DISPLAY_INTERVAL_MILLISECONDS)
    THEN [fired |-> TRUE,
          screen |-> IF current.hasValidData
                     THEN IF showCO2 THEN Co2Screen(current) ELSE ThiScreen(current)
                     ELSE NoDataScreen,
          showCO2 |-> showCO2,
          lastTime |-> currentSystemTime]
    ELSE [fired |-> FALSE, screen |-> shown, showCO2 |-> showCO2, lastTime |-> lastTime]

TickResultKeepsTimeOnNoData(currentSystemTime, current, showCO2, lastTime, shown) ==
    IF AtLeast32(Sub32(currentSystemTime, lastTime),
                 INTERACTIVE_DISPLAY_INTERVAL_MILLISECONDS)
    THEN [fired |-> TRUE,
          screen |-> IF current.hasValidData
                     THEN IF showCO2 THEN Co2Screen(current) ELSE ThiScreen(current)
                     ELSE NoDataScreen,
          showCO2 |-> IF current.hasValidData THEN ~showCO2 ELSE showCO2,
          lastTime |-> IF current.hasValidData THEN currentSystemTime ELSE lastTime]
    ELSE [fired |-> FALSE, screen |-> shown, showCO2 |-> showCO2, lastTime |-> lastTime]

TickResultNoWrap(currentSystemTime, current, showCO2, lastTime, shown) ==
    IF /\ \/ currentSystemTime.hi > lastTime.hi
          \/ currentSystemTime.hi = lastTime.hi /\ currentSystemTime.lo >= lastTime.lo
       /\ AtLeast32(Sub32(currentSystemTime, lastTime),
                    INTERACTIVE_DISPLAY_INTERVAL_MILLISECONDS)
    THEN [fired |-> TRUE,
          screen |-> IF current.hasValidData
                     THEN IF showCO2 THEN Co2Screen(current) ELSE ThiScreen(current)
                     ELSE NoDataScreen,
          showCO2 |-> IF current.hasValidData THEN ~showCO2 ELSE showCO2,
          lastTime |-> currentSystemTime]
    ELSE [fired |-> FALSE, screen |-> shown, showCO2 |-> showCO2, lastTime |-> lastTime]

TickResult(currentSystemTime, current, showCO2, lastTime, shown) ==
    IF AtLeast32(Sub32(currentSystemTime, lastTime),
                 INTERACTIVE_DISPLAY_INTERVAL_MILLISECONDS)
    THEN [fired |-> TRUE,
          screen |-> IF current.hasValidData
                     THEN IF showCO2 THEN Co2Screen(current) ELSE ThiScreen(current)
                     ELSE NoDataScreen,
          showCO2 |-> IF current.hasValidData THEN ~showCO2 ELSE showCO2,
          lastTime |-> currentSystemTime]
    ELSE [fired |-> FALSE, screen |-> shown, showCO2 |-> showCO2, lastTime |-> lastTime]

\* updateDisplayIfIntervalElapsed.  millis() has advanced since it was last
\* read by the time that has passed.
updateDisplayIfIntervalElapsed ==
    /\ pc = "tick"
    /\ \E elapsed \in ElapsedSamples(sinceRead) :
          LET currentSystemTime == Add32(millisCounter, elapsed)
              r == TickResult(currentSystemTime, currentSensorReading, displayCO2,
                              lastInteractiveDisplayTime, screen)
          IN  /\ millisCounter' = currentSystemTime
              /\ screen' = r.screen
              /\ displayCO2' = r.showCO2
              /\ lastInteractiveDisplayTime' = r.lastTime
              /\ ev' = [NoEvent EXCEPT
                           !.tick = IF r.fired THEN "fired" ELSE "skipped",
                           !.drawnBy = IF r.fired THEN "updateDisplayIfIntervalElapsed"
                                       ELSE "none"]
    /\ sinceRead' = "pass"
    /\ pc' = "ntp"
    /\ UNCHANGED <<mqttVars, timeVars, digiVars, currentSensorReading, wifiWaits,
                   passes, fnVars>>

\* loop() line 165: updateDisplayIfIntervalElapsed.
Tick ==
    /\ updateDisplayIfIntervalElapsed
    /\ UNCHANGED <<clockLog, displayHistory>>

\* updateSystemNetworkTime: timeClient.update().  The time client reports a
\* later time than before; it reports a synchronized time once an update
\* has succeeded.
UpdateSystemNetworkTime ==
    /\ pc = "ntp"
    /\ \E e \in UnsyncedEpochs \cup SyncedEpochs :
          /\ e >= epochTime
          /\ e \in UnsyncedEpochs => ~timeSynced
          /\ epochTime' = e
          /\ timeSynced' = (e \in SyncedEpochs)
    /\ pc' = "clock"
    /\ ev' = NoEvent
    /\ UNCHANGED <<mqttVars, ntpAttempt, digiVars, displayVars, wifiWaits,
                   millisCounter, sinceRead, screen, passes, fnVars, clockLog, displayHistory>>

TimeStringUnpadded(hour, minute) ==
    (IF hour >= 10 THEN <<48 + (hour \div 10)>> ELSE <<>>)
        \o <<48 + (hour % 10), ChColon>>
        \o (IF minute >= 10 THEN <<48 + (minute \div 10)>> ELSE <<>>)
        \o <<48 + (minute % 10)>>

\* sprintf(time_string, "%02d:%02d", hour, minute)
TimeString(hour, minute) ==
    <<48 + (hour \div 10), 48 + (hour % 10), ChColon,
      48 + (minute \div 10), 48 + (minute % 10)>>

\* updateDigiClockDisplay: whether it writes, and then the string written
\* and the minute remembered.
ClockResultForgetsMinute(epoch, lastMinute) ==
    IF epoch > EpochThreshold /\ getMinutes(epoch) # lastMinute
    THEN [write |-> TRUE, text |-> TimeString(getHours(epoch), getMinutes(epoch)),
          lastMinute |-> lastMinute]
    ELSE [write |-> FALSE, text |-> <<>>, lastMinute |-> lastMinute]

ClockResultNoGuard(epoch, lastMinute) ==
    IF getMinutes(epoch) # lastMinute
    THEN [write |-> TRUE, text |-> TimeString(getHours(epoch), getMinutes(epoch)),
          lastMinute |-> getMinutes(epoch)]
    ELSE [write |-> FALSE, text |-> <<>>, lastMinute |-> lastMinute]

ClockResultAtOrAfter(epoch, lastMinute) ==
    IF epoch >= EpochThreshold /\ getMinutes(epoch) # lastMinute
    THEN [write |-> TRUE, text |-> TimeString(getHours(epoch), getMinutes(epoch)),
          lastMinute |-> getMinutes(epoch)]
    ELSE [write |-> FALSE, text |-> <<>>, lastMinute |-> lastMinute]

ClockResultWritesEveryTime(epoch, lastMinute) ==
    IF epoch > EpochThreshold
    THEN [write |-> TRUE, text |-> TimeString(getHours(epoch), getMinutes(epoch)),
          lastMinute |-> getMinutes(epoch)]
    ELSE [write |-> FALSE, text |-> <<>>, lastMinute |-> lastMinute]

ClockResult(epoch, lastMinute) ==
    IF epoch > EpochThreshold /\ getMinutes(epoch) # lastMinute
    THEN [write |-> TRUE, text |-> TimeString(getHours(epoch), getMinutes(epoch)),
          lastMinute |-> getMinutes(epoch)]
    ELSE [write |-> FALSE, text |-> <<>>, lastMinute |-> lastMinute]

\* updateDigiClockDisplay.  digi_clock.setString() is issued whether or not
\* begin() had found the unit; only a unit that is present shows the string.
updateDigiClockDisplay ==
    /\ pc = "clock"
    /\ LET r == ClockResult(epochTime, last_digiclock_minute)
       IN  /\ last_digiclock_minute' = r.lastMinute
           /\ digiClockString' = IF r.write /\ digiClockPresent THEN r.text
                                 ELSE digiClockString
           /\ ev' = [NoEvent EXCEPT !.digiWrite = IF r.write THEN "setString" ELSE "none"]
    /\ pc' = "delay"
    /\ UNCHANGED <<mqttVars, timeVars, digiClockPresent, displayVars, wifiWaits,
                   millisCounter, sinceRead, screen, passes, fnVars>>

\* loop() line 171: updateDigiClockDisplay.
UpdateDigiClock ==
    /\ updateDigiClockDisplay
    /\ UNCHANGED <<clockLog, displayHistory>>

\* delay(MAIN_LOOP_DELAY_MILLISECONDS), end of a pass of loop().  The broker
\* connection may have been lost by the next pass, and with it the
\* subscription of the session.
Delay ==
    /\ pc = "delay"
    /\ passes < MaxPasses
    /\ passes' = passes + 1
    /\ pc' = "maintain"
    /\ \E lost \in BOOLEAN :
          /\ mqttConnected' = (mqttConnected /\ ~lost)
          /\ mqttSubscribed' = (mqttSubscribed /\ ~lost)
    /\ ev' = NoEvent
    /\ UNCHANGED <<mqttReturn, mqttCallbackSet, mqttFailures, timeVars,
                   digiVars, displayVars, wifiWaits, millisCounter, sinceRead,
                   screen, fnVars, clockLog, displayHistory>>

Next ==
    \/ SetupDisplay
    \/ InitializeDigiClockFound
    \/ InitializeDigiClockMissing
    \/ WiFiWait
    \/ WiFiConnected
    \/ NtpUpdateSucceeds
    \/ NtpUpdateFails
    \/ NtpGiveUp
    \/ ConfigureMQTT
    \/ MqttConnectSucceeds
    \/ MqttConnectFails
    \/ SetupRefresh
    \/ MaintainConnected
    \/ MaintainReconnect
    \/ ProcessNoMessage
    \/ ProcessMessage
    \/ Tick
    \/ UpdateSystemNetworkTime
    \/ UpdateDigiClock
    \/ Delay

Spec == Init /\ [][Next]_vars

\* The processor keeps executing: setup() and loop() take their next step
\* whenever there is one.  Nothing obliges the WiFi link to come up or the
\* broker to accept a connection.
LiveSpec == Init /\ [][Next]_vars /\ WF_vars(Next)

\* ------------------------------------------------------------------------
\* Specification of the three functions applied to one input
\* ------------------------------------------------------------------------
FnInit ==
    /\ ProgInit
    /\ \E i \in FnInputs : fnInput = i.bytes /\ fnMsg = i.msg
    /\ fnOp = "none"
    /\ fnString = <<>>
    /\ fnAccept = FALSE
    /\ fnPacket = DefaultPacket

\* convertRawPayloadToString(rawPayload, payloadLength) on the input bytes.
FnDecode ==
    /\ fnOp = "none"
    /\ fnOp' = "decode"
    /\ fnString' = convertRawPayloadToString(fnInput)
    /\ UNCHANGED <<fnInput, fnMsg, fnAccept, fnPacket>>
    /\ UNCHANGED progVars

\* validateJSONDataIntegrity(jsonData) on the input as a String (no byte 0).
FnValidate ==
    /\ fnOp = "none"
    /\ \A i \in 1..Len(fnInput) : fnInput[i] # 0
    /\ fnOp' = "validate"
    /\ fnAccept' = validateJSONDataIntegrity(fnInput)
    /\ UNCHANGED <<fnInput, fnMsg, fnString, fnPacket>>
    /\ UNCHANGED progVars

\* parseJSONSensorData(jsonString) on the input as a String (no byte 0).
FnParse ==
    /\ fnOp = "none"
    /\ \A i \in 1..Len(fnInput) : fnInput[i] # 0
    /\ fnOp' = "parse"
    /\ fnPacket' = parseJSONSensorData(fnInput)
    /\ UNCHANGED <<fnInput, fnMsg, fnString, fnAccept>>
    /\ UNCHANGED progVars

FnNext == FnDecode \/ FnValidate \/ FnParse

FnSpec == FnInit /\ [][FnNext]_vars

\* ------------------------------------------------------------------------
\* Specification of the clock policy: updateDigiClockDisplay evaluated pass
\* after pass against a time source, each evaluation logged
\* ------------------------------------------------------------------------
MaxClockEvals == 3

\* Epochs the time source reports: those of the firmware model, 10:01 after
\* boot without synchronization, one second after the threshold and
\* 00:10:30 of 2023-01-01.
ClockEpochs ==
    UnsyncedEpochs \cup SyncedEpochs \cup {36060, EpochThreshold + 1, 1672531830}

\* loop() reaches updateDigiClockDisplay for the first time: setup() has
\* run with or without the Digi-Clock unit, nothing was written by the
\* policy yet.
ClockInitWith(epochs) ==
    /\ pc = "clock"
    /\ mqttReturn = "setup"
    /\ wifiWaits = 0
    /\ ntpAttempt = 0
    /\ \E e \in epochs :
          /\ epochTime = e
          /\ timeSynced = (e >= EpochThreshold)
    /\ mqttCallbackSet = TRUE
    /\ mqttConnected = TRUE
    /\ mqttSubscribed = TRUE
    /\ mqttFailures = 0
    /\ \E found \in BOOLEAN :
          /\ digiClockPresent = found
          /\ digiClockString = IF found THEN <<45, 45, 45, 45>> ELSE <<>>
    /\ last_digiclock_minute = -1
    /\ currentSensorReading = DefaultPacket
    /\ displayCO2 = TRUE
    /\ lastInteractiveDisplayTime = U32(0)
    /\ millisCounter = U32(2 * CONNECTION_SUCCESS_DISPLAY_TIME + 1000)
    /\ sinceRead = "pass"
    /\ screen = NoDataScreen
    /\ passes = 0
    /\ ev = NoEvent
    /\ clockLog = <<>>
    /\ displayHistory = NoHistory
    /\ FnIdle

ClockInit == ClockInitWith(ClockEpochs)

\* updateDigiClockDisplay, logged: the epoch it read, the minute remembered
\* before it ran, and whether it wrote to the unit.
ClockEvaluate ==
    /\ Len(clockLog) < MaxClockEvals
    /\ updateDigiClockDisplay
    /\ clockLog' = Append(clockLog,
                          [epoch |-> epochTime,
                           before |-> last_digiclock_minute,
                           wrote |-> ev'.digiWrite = "setString"])
    /\ UNCHANGED displayHistory

\* The rest of a pass of loop() as the policy sees it: by the next
\* evaluation timeClient reports the same or a later time.
ClockNextPass ==
    /\ pc = "delay"
    /\ pc' = "clock"
    /\ \E e \in ClockEpochs :
          /\ e >= epochTime
          /\ epochTime' = e
          /\ timeSynced' = (e >= EpochThreshold)
    /\ ev' = NoEvent
    /\ UNCHANGED <<mqttVars, ntpAttempt, digiVars, displayVars, wifiWaits,
                   millisCounter, sinceRead, screen, passes, fnVars, clockLog, displayHistory>>

ClockNext == ClockEvaluate \/ ClockNextPass

ClockSpec == ClockInit /\ [][ClockNext]_vars

\* Every minute of a day after the threshold: 00:00:01, 00:01:01, ...,
\* 23:59:01 of 2023-01-01 as timeClient reports it.
DayEpochs == {EpochThreshold + 1 + 60 * k : k \in 0..1439}

\* The first evaluation of updateDigiClockDisplay at each minute of the day.
ClockFormatSpec == ClockInitWith(DayEpochs) /\ [][ClockEvaluate]_vars

\* ------------------------------------------------------------------------
\* Specification of the display policy: the message handler and the
\* interval tick pass after pass, with what the earlier ticks drew and the
\* last accepted message remembered
\* ------------------------------------------------------------------------
MaxDisplayPasses == 3

\* loop() reaches processIncomingMQTTMessages for the first time: setup()
\* has connected to the broker and drawn the screen without a record.
DisplayInit ==
    /\ pc = "process"
    /\ mqttReturn = "setup"
    /\ wifiWaits = 0
    /\ ntpAttempt = 0
    /\ timeSynced = TRUE
    /\ epochTime = EpochThreshold + 1
    /\ mqttCallbackSet = TRUE
    /\ mqttConnected = TRUE
    /\ mqttSubscribed = TRUE
    /\ mqttFailures = 0
    /\ digiClockPresent = TRUE
    /\ digiClockString = <<45, 45, 45, 45>>
    /\ last_digiclock_minute = -1
    /\ currentSensorReading = DefaultPacket
    /\ displayCO2 = TRUE
    /\ lastInteractiveDisplayTime = U32(0)
    /\ millisCounter = U32(0)
    /\ sinceRead = "boot"
    /\ screen = refreshEntireDisplay(DefaultPacket, TRUE)
    /\ passes = 0
    /\ ev = NoEvent
    /\ clockLog = <<>>
    /\ displayHistory = NoHistory
    /\ FnIdle

\* handleIncomingMQTTMessage called by processIncomingMQTTMessages; an
\* accepted payload is remembered.
DisplayMessage ==
    /\ processIncomingMQTTMessages
    /\ displayHistory' =
           [displayHistory EXCEPT
               !.accepted = IF ev'.rx = "accepted" THEN ev'.payload ELSE @]
    /\ UNCHANGED clockLog

\* updateDisplayIfIntervalElapsed; what a fired tick drew, and when, is
\* remembered (firedTicks counts none, one, two or more).
DisplayTick ==
    /\ updateDisplayIfIntervalElapsed
    /\ displayHistory' =
           IF ev'.tick # "fired" THEN displayHistory
           ELSE IF screen'.view \in {"co2", "thi"}
           THEN [displayHistory EXCEPT
                    !.firedTicks = IF @ < 2 THEN @ + 1 ELSE @,
                    !.prevTickTime = displayHistory.lastTickTime,
                    !.lastTickTime = millisCounter',
                    !.firstValidView = IF @ = "none" THEN screen'.view ELSE @,
                    !.prevValidView = displayHistory.lastValidView,
                    !.lastValidView = screen'.view]
           ELSE [displayHistory EXCEPT
                    !.firedTicks = IF @ < 2 THEN @ + 1 ELSE @,
                    !.prevTickTime = displayHistory.lastTickTime,
                    !.lastTickTime = millisCounter']
    /\ UNCHANGED clockLog

\* The rest of a pass of loop() as the display policy sees it: the time
\* poll, the clock, the delay, and in the next pass
\* maintainMQTTBrokerConnection, which returns at once or after a reconnect
\* that stalled the loop and printed its messages on the screen.
DisplayRestOfPass ==
    /\ pc = "ntp"
    /\ passes < MaxDisplayPasses
    /\ passes' = passes + 1
    /\ pc' = "process"
    /\ \E stalled \in BOOLEAN :
          /\ sinceRead' = IF stalled THEN "reconnect" ELSE "pass"
          /\ screen' = IF stalled THEN StatusScreen("MQTT Connected!") ELSE screen
          /\ ev' = [NoEvent EXCEPT
                       !.drawnBy = IF stalled THEN "establishMQTTBrokerConnection"
                                   ELSE "none"]
    /\ UNCHANGED <<mqttVars, timeVars, digiVars, displayVars, wifiWaits,
                   millisCounter, fnVars, clockLog, displayHistory>>

DisplayNext ==
    \/ ProcessNoMessage
    \/ DisplayMessage
    \/ DisplayTick
    \/ DisplayRestOfPass

DisplaySpec == DisplayInit /\ [][DisplayNext]_vars

\* ------------------------------------------------------------------------
\* Properties of the three functions (specification FnSpec)
\* ------------------------------------------------------------------------
\* C1: convertRawPayloadToString returns exactly the input bytes with a value
\* in 32..126, in their original order, and nothing else: the k-th kept byte
\* of the input is the k-th character of the result, and the result has as
\* many characters as the input has kept bytes (none for an input without
\* any).
C1_DecoderKeepsPrintableSubsequence ==
    fnOp = "decode" =>
        LET keep == {i \in 1..Len(fnInput) : fnInput[i] \in 32..126}
            rank(i) == Cardinality({j \in keep : j <= i})
        IN  /\ Len(fnString) = Cardinality(keep)
            /\ \A i \in keep : fnString[rank(i)] = fnInput[i]

C1_Witness ==
    /\ fnOp = "decode"
    /\ fnInput = <<125, 31, 32>>
    /\ fnString = <<125, 32>>

\* C2: validateJSONDataIntegrity accepts a string exactly when it has a
\* character that is not whitespace, the first such character is '{' and the
\* last such character is '}'; the strings "{" and "}" are rejected.
C2_ValidatorAcceptsExactlyBraced ==
    fnOp = "validate" =>
        LET solid == {i \in 1..Len(fnInput) : fnInput[i] \notin {9, 10, 11, 12, 13, 32}}
            first == CHOOSE i \in solid : \A j \in solid : i <= j
            last == CHOOSE i \in solid : \A j \in solid : i >= j
        IN  /\ fnAccept <=> (solid # {} /\ fnInput[first] = 123 /\ fnInput[last] = 125)
            /\ fnInput \in {<<123>>, <<125>>} => ~fnAccept

\* The text {garbage} is accepted.
C2_Witness ==
    /\ fnOp = "validate"
    /\ fnInput = <<123, 103, 97, 114, 98, 97, 103, 101, 125>>
    /\ fnAccept

\* C3: when the JSON parse of a structurally accepted string fails,
\* parseJSONSensorData returns hasValidData = FALSE and 0, 0.0, 0.0, 0.0,
\* "", 0 in the other fields; the texts of MalformedTexts are such strings.
C3_ParseFailureGivesDefaultRecord ==
    fnOp = "parse" =>
        /\ (validateJSONDataIntegrity(fnInput) /\ deserializeJson(fnInput).err # "Ok")
               => /\ fnPacket.hasValidData = FALSE
                  /\ fnPacket.carbonDioxideLevel = 0
                  /\ fnPacket.thermalComfortIndex = [m |-> 0, e |-> 0]
                  /\ fnPacket.ambientTemperature = [m |-> 0, e |-> 0]
                  /\ fnPacket.relativeHumidity = [m |-> 0, e |-> 0]
                  /\ fnPacket.comfortLevelDescription = <<>>
                  /\ fnPacket.dataTimestamp = 0
        /\ fnInput \in MalformedTexts
               => validateJSONDataIntegrity(fnInput) /\ ~fnPacket.hasValidData

\* The text {"co2":} has been parsed.
C3_Witness ==
    /\ fnOp = "parse"
    /\ fnInput = <<123, 34, 99, 111, 50, 34, 58, 125>>
    /\ ~fnPacket.hasValidData

\* C4: for a message sent with a set of the six keys (and possibly a key the
\* firmware does not know), each field of the parsed record holds the value
\* sent under its key when the key is present and its default when absent.
C4_FieldsPopulatedIffKeyPresent ==
    (fnOp = "parse" /\ fnMsg.isMsg) =>
        /\ fnPacket.carbonDioxideLevel =
               IF "co2" \in fnMsg.has THEN Co2Of(fnMsg.variant) ELSE 0
        /\ fnPacket.thermalComfortIndex =
               IF "thi" \in fnMsg.has THEN ThiOf(fnMsg.variant) ELSE [m |-> 0, e |-> 0]
        /\ fnPacket.ambientTemperature =
               IF "temperature" \in fnMsg.has THEN TemperatureValue ELSE [m |-> 0, e |-> 0]
        /\ fnPacket.relativeHumidity =
               IF "humidity" \in fnMsg.has THEN HumidityValue ELSE [m |-> 0, e |-> 0]
        /\ fnPacket.comfortLevelDescription =
               IF "comfort_level" \in fnMsg.has THEN ComfortValue ELSE <<>>
        /\ fnPacket.dataTimestamp =
               IF "timestamp" \in fnMsg.has THEN TimestampValue ELSE 0

\* {"co2":415,"thi":21.5} with an unknown key has been parsed.
C4_Witness ==
    /\ fnOp = "parse"
    /\ fnMsg.isMsg /\ fnMsg.has = {"co2", "thi"} /\ fnMsg.unknown /\ fnMsg.variant = 1
    /\ fnPacket.carbonDioxideLevel = 415
    /\ fnPacket.thermalComfortIndex = [m |-> 215, e |-> -1]
    /\ fnPacket.dataTimestamp = 0

\* C5: the returned record has hasValidData = TRUE exactly when the JSON
\* parse succeeded, whatever keys were present; the text {} gives
\* hasValidData = TRUE with every field at its default.
C5_ValidIffParseSucceeded ==
    fnOp = "parse" =>
        /\ fnPacket.hasValidData <=> (deserializeJson(fnInput).err = "Ok")
        /\ fnMsg.isMsg => fnPacket.hasValidData
        /\ fnInput = <<123, 125>> =>
               fnPacket = [carbonDioxideLevel |-> 0,
                           thermalComfortIndex |-> [m |-> 0, e |-> 0],
                           ambientTemperature |-> [m |-> 0, e |-> 0],
                           relativeHumidity |-> [m |-> 0, e |-> 0],
                           comfortLevelDescription |-> <<>>,
                           dataTimestamp |-> 0, hasValidData |-> TRUE]

\* The text {} has been parsed.
C5_Witness ==
    /\ fnOp = "parse"
    /\ fnInput = <<123, 125>>
    /\ fnPacket.hasValidData

\* ------------------------------------------------------------------------
\* Properties of the firmware (specification Spec)
\* ------------------------------------------------------------------------
\* C6: a redraw shows a CO2 or THI value only when the current record has
\* hasValidData = TRUE, and a full redraw (refreshEntireDisplay or the
\* interval tick) made while it is FALSE shows "No Data".
C6_MetricShownOnlyForValidRecord ==
    /\ screen.view \in {"co2", "thi"} => currentSensorReading.hasValidData
    /\ (ev.drawnBy \in {"refreshEntireDisplay", "updateDisplayIfIntervalElapsed"}
           /\ ~currentSensorReading.hasValidData)
          => screen = [view |-> "nodata", text |-> <<>>, note |-> "No Data"]

\* An interval tick has redrawn the screen with no valid record held.
C6_Witness ==
    /\ ev.drawnBy = "updateDisplayIfIntervalElapsed"
    /\ ~currentSensorReading.hasValidData
    /\ screen.view = "nodata"

\* C7: a step that handles a message rejected by the structural check or
\* failing the parse leaves all seven fields of currentSensorReading as they
\* were; the payloads co2=415 and {"co2":} are such messages.
C7_RejectedMessageKeepsRecord ==
    [][/\ ev'.rx \in {"invalid", "parsefail"} => currentSensorReading' = currentSensorReading
       /\ ev'.payload = PayloadNoObject => ev'.rx = "invalid"
       /\ ev'.payload = PayloadParseFail => ev'.rx = "parsefail"]_vars

\* {"co2":} has arrived after the full message was accepted.
C7_Witness ==
    /\ ev.rx = "parsefail"
    /\ ev.before.carbonDioxideLevel = 1200
    /\ currentSensorReading.carbonDioxideLevel = 1200
    /\ currentSensorReading.comfortLevelDescription = <<72, 111, 116>>

\* C8: after an accepted message the current record is the record of that
\* message alone, the fields it did not send at their defaults, and the
\* screen drawn by the message shows that record's CO2 or THI value.
C8_AcceptedMessageReplacesRecord ==
    ev.rx = "accepted" =>
        /\ ev.payload = PayloadPartial =>
              /\ currentSensorReading =
                     [carbonDioxideLevel |-> 415,
                      thermalComfortIndex |-> [m |-> 215, e |-> -1],
                      ambientTemperature |-> [m |-> 0, e |-> 0],
                      relativeHumidity |-> [m |-> 0, e |-> 0],
                      comfortLevelDescription |-> <<>>,
                      dataTimestamp |-> 0, hasValidData |-> TRUE]
              /\ screen = IF displayCO2
                          THEN [view |-> "co2", text |-> <<52, 49, 53>>, note |-> "CO2:"]
                          ELSE [view |-> "thi", text |-> <<50, 49, 46, 53>>, note |-> "THI:"]
        /\ ev.payload = PayloadFull =>
              /\ currentSensorReading =
                     [carbonDioxideLevel |-> 1200,
                      thermalComfortIndex |-> [m |-> 78, e |-> 0],
                      ambientTemperature |-> [m |-> 0, e |-> 0],
                      relativeHumidity |-> [m |-> 0, e |-> 0],
                      comfortLevelDescription |-> <<72, 111, 116>>,
                      dataTimestamp |-> 0, hasValidData |-> TRUE]
              /\ screen = IF displayCO2
                          THEN [view |-> "co2", text |-> <<49, 50, 48, 48>>, note |-> "CO2:"]
                          ELSE [view |-> "thi", text |-> <<55, 56, 46, 48>>, note |-> "THI:"]
        /\ ev.payload = PayloadEmptyObject =>
              /\ currentSensorReading =
                     [carbonDioxideLevel |-> 0,
                      thermalComfortIndex |-> [m |-> 0, e |-> 0],
                      ambientTemperature |-> [m |-> 0, e |-> 0],
                      relativeHumidity |-> [m |-> 0, e |-> 0],
                      comfortLevelDescription |-> <<>>,
                      dataTimestamp |-> 0, hasValidData |-> TRUE]
              /\ screen = IF displayCO2
                          THEN [view |-> "co2", text |-> <<48>>, note |-> "CO2:"]
                          ELSE [view |-> "thi", text |-> <<48, 46, 48>>, note |-> "THI:"]
        /\ ev.payload \in {PayloadPartial, PayloadFull, PayloadEmptyObject}

\* {"co2":415,"thi":21.5} has been accepted while the record of the full
\* message was held: its comfort_level is gone.
C8_Witness ==
    /\ ev.rx = "accepted"
    /\ ev.payload = PayloadPartial
    /\ ev.before.comfortLevelDescription = <<72, 111, 116>>
    /\ currentSensorReading.comfortLevelDescription = <<>>
    /\ screen.view = "thi"

\* C9: displayCO2 changes only in a step of updateDisplayIfIntervalElapsed
\* in which millis() - lastInteractiveDisplayTime >= 3000 (mod 2^32) and the
\* record is valid; a tick that draws "No Data" and a tick before the
\* interval has elapsed leave it unchanged.
C9_ViewFlipsOnlyOnValidElapsedTick ==
    [][LET elapsed == Sub32(millisCounter', lastInteractiveDisplayTime)
       IN  /\ displayCO2' # displayCO2 =>
                 /\ pc = "tick"
                 /\ ev'.tick = "fired"
                 /\ elapsed.hi > 0 \/ elapsed.lo >= 3000
                 /\ currentSensorReading.hasValidData
           /\ (pc = "tick" /\ elapsed.hi = 0 /\ elapsed.lo < 3000) =>
                 /\ ev'.tick = "skipped"
                 /\ displayCO2' = displayCO2
           /\ (ev'.tick = "fired" /\ screen'.view = "nodata") => displayCO2' = displayCO2
      ]_vars

\* A tick has fired with a valid record and has flipped the view to THI.
C9_Witness ==
    /\ ev.tick = "fired"
    /\ currentSensorReading.hasValidData
    /\ screen.view = "co2"
    /\ displayCO2 = FALSE

\* C10: a step that handles a message, whatever its outcome, leaves
\* displayCO2 and lastInteractiveDisplayTime unchanged.
C10_MessageKeepsViewAndAlternationTime ==
    [][ev'.rx # "none" =>
           /\ displayCO2' = displayCO2
           /\ lastInteractiveDisplayTime' = lastInteractiveDisplayTime]_vars

\* A message has been accepted and drawn while the view flag selects THI.
C10_Witness ==
    /\ ev.rx = "accepted"
    /\ ev.drawnBy = "refreshEntireDisplay"
    /\ displayCO2 = FALSE
    /\ screen.view = "thi"

\* ------------------------------------------------------------------------
\* Properties of the clock policy (specification ClockSpec)
\* ------------------------------------------------------------------------
\* C11: with a synchronized time source (every epoch read lies after the
\* threshold), an evaluation writes to the Digi-Clock unit exactly when its
\* minute differs from the minute of the latest earlier write (any minute,
\* when nothing was written yet); for the minutes 10, 10, 11 from the
\* never-written state that is two writes.
C11_OneWritePerMinuteChange ==
    LET n == Len(clockLog)
        Minute(i) == (clockLog[i].epoch % 3600) \div 60
        Writes(k) == {j \in 1..k : clockLog[j].wrote}
        LastWritten(i) ==
            IF Writes(i - 1) = {} THEN -1
            ELSE Minute(CHOOSE j \in Writes(i - 1) : \A k \in Writes(i - 1) : k <= j)
    IN  (\A i \in 1..n : clockLog[i].epoch > 1672531200) =>
            /\ \A i \in 1..n : clockLog[i].wrote <=> (Minute(i) # LastWritten(i))
            /\ (n = 3 /\ Minute(1) = 10 /\ Minute(2) = 10 /\ Minute(3) = 11)
                   => Cardinality(Writes(3)) = 2

\* 00:10:00, 00:10:30 and 00:11:00 have been evaluated: two writes, and the
\* unit shows 00:11.
C11_Witness ==
    /\ Len(clockLog) = 3
    /\ clockLog[1].epoch = 1672531800 /\ clockLog[1].wrote
    /\ clockLog[2].epoch = 1672531830 /\ ~clockLog[2].wrote
    /\ clockLog[3].epoch = 1672531860 /\ clockLog[3].wrote
    /\ digiClockPresent /\ digiClockString = <<48, 48, 58, 49, 49>>

\* C12: an evaluation of updateDigiClockDisplay that reads an epoch before
\* 1672531200 issues no write to the unit and leaves last_digiclock_minute
\* (and what the unit shows) unchanged, whatever the minute.
C12_NoWriteBeforeThreshold ==
    [][(pc = "clock" /\ epochTime < 1672531200) =>
           /\ ev'.digiWrite = "none"
           /\ last_digiclock_minute' = last_digiclock_minute
           /\ digiClockString' = digiClockString]_vars

\* Minute 0 (09:00 after boot), then minute 1 have been evaluated without
\* synchronization: nothing written, nothing remembered.
C12_Witness ==
    /\ Len(clockLog) = 2
    /\ clockLog[1].epoch = 32400 /\ clockLog[2].epoch = 32460
    /\ ~clockLog[1].wrote /\ ~clockLog[2].wrote
    /\ last_digiclock_minute = -1
    /\ pc = "delay"

\* C13 as stated: an evaluation that reads the epoch 1672531200 itself with
\* a minute different from the remembered one writes to the unit.
C13_WritesAtThreshold ==
    \A i \in 1..Len(clockLog) :
        (clockLog[i].epoch = 1672531200
             /\ (clockLog[i].epoch % 3600) \div 60 # clockLog[i].before)
            => clockLog[i].wrote

\* C13, amended: the policy proceeds only when the epoch is after the
\* threshold.  An evaluation that reads 1672531200 itself never writes,
\* whatever the minute; one that reads 1672531201 with a minute different
\* from the remembered one writes.
C13_WritesOnlyAfterThreshold ==
    \A i \in 1..Len(clockLog) :
        /\ clockLog[i].epoch = 1672531200 => ~clockLog[i].wrote
        /\ (clockLog[i].epoch = 1672531201 /\ clockLog[i].before # 0)
              => clockLog[i].wrote

\* The threshold itself was read with nothing written yet: no write; one
\* second later 00:00 is written.
C13_Witness ==
    /\ Len(clockLog) = 2
    /\ clockLog[1] = [epoch |-> 1672531200, before |-> -1, wrote |-> FALSE]
    /\ clockLog[2] = [epoch |-> 1672531201, before |-> -1, wrote |-> TRUE]
    /\ digiClockPresent /\ digiClockString = <<48, 48, 58, 48, 48>>

\* C14: an evaluation of updateDigiClockDisplay whose minute equals
\* last_digiclock_minute issues no write and changes nothing but the
\* position in loop().
C14_SameMinuteChangesNothing ==
    [][(pc = "clock" /\ (epochTime % 3600) \div 60 = last_digiclock_minute) =>
           /\ ev'.digiWrite = "none"
           /\ UNCHANGED <<mqttReturn, wifiWaits, ntpAttempt, timeSynced, epochTime,
                          mqttCallbackSet, mqttConnected, mqttSubscribed, mqttFailures,
                          digiClockPresent, digiClockString, last_digiclock_minute,
                          currentSensorReading, displayCO2, lastInteractiveDisplayTime,
                          millisCounter, screen, passes>>]_vars

\* 00:10:00 was written, 00:10:30 has just been evaluated: no write, 00:10
\* is still shown.
C14_Witness ==
    /\ Len(clockLog) = 2
    /\ clockLog[1].epoch = 1672531800 /\ clockLog[1].wrote
    /\ clockLog[2].epoch = 1672531830 /\ ~clockLog[2].wrote
    /\ clockLog[2].before = 10 /\ last_digiclock_minute = 10
    /\ digiClockPresent /\ digiClockString = <<48, 48, 58, 49, 48>>
    /\ pc = "delay"

\* ------------------------------------------------------------------------
\* Properties of setup() and loop() (specifications Spec and LiveSpec)
\* ------------------------------------------------------------------------
\* C15 as stated: once digi_clock.begin() has failed in setup(), no write
\* (setBrightness, setString) is issued to the Digi-Clock unit.
C15_NoWriteAfterFailedInit ==
    (pc \notin {"setup", "digiclock"} /\ ~digiClockPresent) => ev.digiWrite = "none"

\* C16 as stated: establishWiFiConnection always returns, so that setup()
\* goes on to the time synchronization, also when the link does not come up.
C16_WiFiConnectTerminates ==
    (pc = "wifi") ~> (pc = "ntp_sync")

\* C18 as stated: a pass of loop() that found the broker connection down
\* reaches the interval tick, also when the connection attempts keep failing.
C18_LoopContinuesWhileBrokerDown ==
    (pc = "mqtt_connect" /\ mqttReturn = "loop") ~> (pc = "tick")

\* C19 as stated: setup() returns and loop() starts, also when the broker
\* accepts no connection during setup().
C19_SetupEndsWithoutBroker ==
    (pc = "mqtt_connect" /\ mqttReturn = "setup") ~> (pc = "maintain")

\* C17: the synchronization loop of setup() makes at most 10 calls of
\* timeClient.update(): each failed call is counted, a call succeeds only
\* while fewer than 10 have failed and then "NTP Synced!" is shown, after the
\* tenth failure "NTP Failed!" is shown, and either way setup() goes on to
\* configureMQTTConnection.
C17_NtpSyncBounded ==
    [][pc = "ntp_sync" =>
           /\ ntpAttempt <= 10
           /\ pc' = "ntp_sync" =>
                 /\ ntpAttempt < 10
                 /\ ntpAttempt' = ntpAttempt + 1
                 /\ screen' = screen
           /\ pc' # "ntp_sync" =>
                 /\ pc' = "mqtt_config"
                 /\ screen'.view = "status"
                 /\ screen'.note = IF ntpAttempt = 10 THEN "NTP Failed!"
                                   ELSE "NTP Synced!"
                 /\ ntpAttempt < 10 => timeSynced'
      ]_vars

\* update() has failed ten times without any forced update getting an
\* answer: "NTP Failed!" is on the screen and setup() is at the broker
\* configuration.
C17_Witness ==
    /\ pc = "mqtt_config"
    /\ screen = [view |-> "status", text |-> <<>>, note |-> "NTP Failed!"]
    /\ ~timeSynced
    /\ epochTime = 32400

\* C20: in a pass of loop() the message step is followed by the interval
\* tick, the tick by the time poll, the poll by updateDigiClockDisplay and
\* that by the delay; a tick that fires right after a message was accepted
\* draws that message's record, and a write to the Digi-Clock unit shows the
\* time polled in the same pass.
C20_LoopStepsInOrder ==
    [][/\ pc = "process" => pc' = "tick"
       /\ pc = "tick" => pc' = "ntp"
       /\ pc = "ntp" => pc' = "clock"
       /\ pc = "clock" => pc' = "delay"
       /\ pc = "delay" => pc' = "maintain"
       /\ (pc = "tick" /\ ev.rx = "accepted" /\ ev'.tick = "fired") =>
             /\ ev.payload = PayloadPartial =>
                   screen'.text = IF displayCO2 THEN <<52, 49, 53>>
                                  ELSE <<50, 49, 46, 53>>
             /\ ev.payload = PayloadFull =>
                   screen'.text = IF displayCO2 THEN <<49, 50, 48, 48>>
                                  ELSE <<55, 56, 46, 48>>
       /\ (pc = "clock" /\ ev'.digiWrite = "setString" /\ digiClockPresent) =>
             LET hour == (epochTime % 86400) \div 3600
                 minute == (epochTime % 3600) \div 60
             IN  digiClockString' = <<48 + (hour \div 10), 48 + (hour % 10), 58,
                                      48 + (minute \div 10), 48 + (minute % 10)>>
      ]_vars

\* A pass has run to its delay in which {"co2":415,"thi":21.5} was accepted,
\* the tick then drew its THI value, and 01:10 as polled was written to the
\* unit.
C20_Witness ==
    /\ pc = "delay"
    /\ passes >= 1
    /\ currentSensorReading.carbonDioxideLevel = 415
    /\ screen = [view |-> "thi", text |-> <<50, 49, 46, 53>>, note |-> "THI:"]
    /\ displayCO2
    /\ epochTime = 1672535400
    /\ ev.digiWrite = "setString"
    /\ digiClockString = <<48, 49, 58, 49, 48>>

\* ------------------------------------------------------------------------
\* Properties of the display policy (specification DisplaySpec)
\* ------------------------------------------------------------------------
\* C21: the interval ticks that draw a metric alternate: the first of them
\* draws CO2, and each later one draws the metric the previous one did not
\* (the ticks fire when 3000 ms have elapsed, see C23).
C21_ValidTicksAlternate ==
    /\ displayHistory.firstValidView \in {"none", "co2"}
    /\ displayHistory.prevValidView # "none" =>
           {displayHistory.prevValidView, displayHistory.lastValidView} = {"co2", "thi"}
    /\ (ev.tick = "fired" /\ screen.view \in {"co2", "thi"}) =>
           displayHistory.lastValidView = screen.view

\* Three ticks have drawn CO2, THI and CO2 again.
C21_Witness ==
    /\ ev.tick = "fired"
    /\ displayHistory.firstValidView = "co2"
    /\ displayHistory.prevValidView = "thi"
    /\ displayHistory.lastValidView = "co2"
    /\ screen.view = "co2"

\* C23: updateDisplayIfIntervalElapsed fires exactly when millis() minus
\* lastInteractiveDisplayTime (mod 2^32) is at least 3000; a tick that fires
\* redraws and sets lastInteractiveDisplayTime to the millis() it read, also
\* when it draws "No Data"; one that does not fire draws nothing and changes
\* neither the record, the view flag nor the time; two consecutive fired
\* ticks are at least 3000 ms apart.
C23_TickFiresOnIntervalAndStampsTime ==
    [][pc = "tick" =>
           LET now == millisCounter'
               last == lastInteractiveDisplayTime
               borrow == IF now.lo < last.lo THEN 1 ELSE 0
               dhi == (now.hi - last.hi - borrow + 131072) % 65536
               dlo == (now.lo - last.lo + 65536) % 65536
               h == displayHistory'
               gapBorrow == IF h.lastTickTime.lo < h.prevTickTime.lo THEN 1 ELSE 0
               gapHi == (h.lastTickTime.hi - h.prevTickTime.hi - gapBorrow + 131072) % 65536
               gapLo == (h.lastTickTime.lo - h.prevTickTime.lo + 65536) % 65536
           IN  /\ ev'.tick = "fired" <=> (dhi > 0 \/ dlo >= 3000)
               /\ ev'.tick = "fired" =>
                     /\ lastInteractiveDisplayTime' = now
                     /\ ev'.drawnBy = "updateDisplayIfIntervalElapsed"
                     /\ screen'.view \in {"co2", "thi", "nodata"}
                     /\ screen'.view = "nodata" <=> ~currentSensorReading.hasValidData
               /\ ev'.tick # "fired" =>
                     /\ ev'.drawnBy = "none"
                     /\ screen' = screen
                     /\ UNCHANGED <<currentSensorReading, displayCO2,
                                    lastInteractiveDisplayTime>>
               /\ h.firedTicks = 2 => (gapHi > 0 \/ gapLo >= 3000)
      ]_vars

\* A second tick has fired without a record: "No Data" is drawn and the
\* time of the tick is remembered.
C23_Witness ==
    /\ ev.tick = "fired"
    /\ screen.view = "nodata"
    /\ displayHistory.firedTicks = 2
    /\ lastInteractiveDisplayTime = millisCounter
    /\ displayCO2

\* C26 as stated: the redraw made for an accepted message shows the metric
\* that the latest interval tick with a valid record drew.
C26_MessageRedrawKeepsMetric ==
    (ev.rx = "accepted" /\ displayHistory.lastValidView # "none") =>
        screen.view = displayHistory.lastValidView

\* C29: hasValidData is FALSE until a message is accepted and TRUE in every
\* state after that; from then on the record held is the record of the
\* latest accepted message, and no redraw by refreshEntireDisplay or by the
\* interval tick draws "No Data".
C29_ValidDataIsMonotone ==
    [][LET Rec(co2, thi, comfort) ==
               [carbonDioxideLevel |-> co2, thermalComfortIndex |-> thi,
                ambientTemperature |-> [m |-> 0, e |-> 0],
                relativeHumidity |-> [m |-> 0, e |-> 0],
                comfortLevelDescription |-> comfort,
                dataTimestamp |-> 0, hasValidData |-> TRUE]
           latest == displayHistory'.accepted
       IN  /\ displayHistory.accepted = <<>> => ~currentSensorReading.hasValidData
           /\ currentSensorReading.hasValidData => currentSensorReading'.hasValidData
           /\ ev'.rx = "accepted" => currentSensorReading'.hasValidData
           /\ latest = PayloadPartial =>
                 currentSensorReading' = Rec(415, [m |-> 215, e |-> -1], <<>>)
           /\ latest = PayloadFull =>
                 currentSensorReading' = Rec(1200, [m |-> 78, e |-> 0], <<72, 111, 116>>)
           /\ latest = PayloadEmptyObject =>
                 currentSensorReading' = Rec(0, [m |-> 0, e |-> 0], <<>>)
           /\ (latest # <<>>
                  /\ ev'.drawnBy \in {"refreshEntireDisplay",
                                      "updateDisplayIfIntervalElapsed"})
                 => screen'.view \in {"co2", "thi"}
      ]_vars

\* After the full message was accepted, {"co2":} has failed to parse and a
\* tick has then drawn the record of the full message.
C29_Witness ==
    /\ ev.tick = "fired"
    /\ displayHistory.accepted = PayloadFull
    /\ currentSensorReading.carbonDioxideLevel = 1200
    /\ currentSensorReading.hasValidData
    /\ screen.view \in {"co2", "thi"}
    /\ passes >= 1

\* C30: the tick fires exactly when the 32-bit millis() value is not one of
\* lastInteractiveDisplayTime + 0 .. lastInteractiveDisplayTime + 2999
\* (mod 2^32), also when the counter has wrapped since the last tick.
C30_IntervalTestWrapsModulo32Bits ==
    [][pc = "tick" =>
           LET now == millisCounter'
               last == lastInteractiveDisplayTime
               Within ==
                   \E k \in 0..2999 :
                       /\ now.lo = (last.lo + k) % 65536
                       /\ now.hi = (last.hi + ((last.lo + k) \div 65536)) % 65536
           IN  ev'.tick = "fired" <=> ~Within
      ]_vars

\* A tick fired shortly before the wrap of millis() and the next has fired
\* after it, with a smaller millis() value.
C30_Witness ==
    /\ ev.tick = "fired"
    /\ displayHistory.firedTicks = 2
    /\ displayHistory.lastTickTime = millisCounter
    /\ displayHistory.prevTickTime.hi = 65535
    /\ millisCounter.hi = 0
    /\ lastInteractiveDisplayTime = millisCounter

\* ------------------------------------------------------------------------
\* The handler and a parsed record (specification Spec)
\* ------------------------------------------------------------------------
\* C22 as stated: a parsed record replaces the current record also when its
\* hasValidData is false, and "No Data" is then drawn.
C22_HandlerReplacesUnconditionally ==
    ev.rx = "parsefail" =>
        /\ ~currentSensorReading.hasValidData
        /\ screen.view = "nodata"

\* C22: the handler replaces the current record only by a parsed record whose
\* hasValidData is true, and then redraws the current view; for a parsed
\* record with hasValidData false it keeps the record it held and draws
\* "JSON Error" with "Parse Failed".
C22_HandlerReplacesOnlyByValidRecord ==
    /\ ev.rx = "parsefail" =>
          /\ currentSensorReading = ev.before
          /\ screen = [view |-> "jsonerror", text |-> <<>>, note |-> "Parse Failed"]
          /\ ev.drawnBy = "displayJSONParsingError"
    /\ ev.rx = "accepted" =>
          /\ currentSensorReading.hasValidData
          /\ ev.drawnBy = "refreshEntireDisplay"
          /\ screen.view = IF displayCO2 THEN "co2" ELSE "thi"

\* {"co2":} has failed to parse while the record of the partial message was
\* held: the record is kept and the error screen is shown.
C22_Witness ==
    /\ ev.rx = "parsefail"
    /\ ev.before.hasValidData
    /\ ev.before.carbonDioxideLevel = 415
    /\ currentSensorReading.carbonDioxideLevel = 415
    /\ screen.view = "jsonerror"

\* ------------------------------------------------------------------------
\* The string written to the Digi-Clock unit
\* ------------------------------------------------------------------------
\* C24: every string written by updateDigiClockDisplay has five characters,
\* two decimal digits of the hour (0..23), a colon and two decimal digits of
\* the minute (0..59), and with its terminator fits time_string[6]; after
\* the write last_digiclock_minute is the minute written.
C24_WriteIsFiveCharsHourColonMinute ==
    (ev.digiWrite = "setString" /\ digiClockPresent) =>
        LET s == digiClockString
            hour == (epochTime % 86400) \div 3600
            minute == (epochTime % 3600) \div 60
        IN  /\ hour \in 0..23 /\ minute \in 0..59
            /\ Len(s) = 5
            /\ Len(s) + 1 <= 6
            /\ s[3] = 58
            /\ \A i \in {1, 2, 4, 5} : s[i] \in 48..57
            /\ (s[1] - 48) * 10 + (s[2] - 48) = hour
            /\ (s[4] - 48) * 10 + (s[5] - 48) = minute
            /\ last_digiclock_minute = minute

\* 09:05 has been written: both numbers are padded with a zero.
C24_Witness ==
    /\ ev.digiWrite = "setString"
    /\ digiClockPresent
    /\ digiClockString = <<48, 57, 58, 48, 53>>
    /\ last_digiclock_minute = 5

\* C25 as stated: when updateDigiClockDisplay has returned with the epoch
\* above the threshold, the unit shows the current hour and minute, also
\* when the hour has changed and the minute is the one last written.
C25_UnitShowsCurrentTime ==
    (pc = "delay" /\ epochTime > 1672531200 /\ digiClockPresent) =>
        LET hour == (epochTime % 86400) \div 3600
            minute == (epochTime % 3600) \div 60
        IN  digiClockString = <<48 + (hour \div 10), 48 + (hour % 10), 58,
                                48 + (minute \div 10), 48 + (minute % 10)>>

\* ------------------------------------------------------------------------
\* Startup synchronization and the broker session (specification Spec)
\* ------------------------------------------------------------------------
\* C27 as stated: "NTP Failed!" is shown only if no call of update() or of
\* forceUpdate() in attemptNTPTimeSynchronization has set the time.
C27_FailureOnlyIfEveryAttemptFailed ==
    (ev.drawnBy = "displayNTPSynchronizationResult" /\ screen.note = "NTP Failed!") =>
        ~timeSynced

\* C28: setCallback has been called before establishMQTTBrokerConnection
\* makes its first connection attempt, and every connection it makes, from
\* setup() or from maintainMQTTBrokerConnection, has its subscription in
\* place when processIncomingMQTTMessages is next called.
C28_SubscribedBeforeProcessing ==
    /\ pc = "mqtt_connect" => mqttCallbackSet
    /\ mqttConnected => (mqttSubscribed /\ mqttCallbackSet)
    /\ pc = "process" => (mqttConnected /\ mqttSubscribed)
    /\ ev.rx # "none" => (mqttSubscribed /\ mqttCallbackSet)

\* The connection was lost, maintainMQTTBrokerConnection has reconnected
\* and loop() is about to process inbound messages.
C28_Witness ==
    /\ pc = "process"
    /\ mqttReturn = "loop"
    /\ passes >= 1
    /\ ev.drawnBy = "establishMQTTBrokerConnection"
    /\ mqttConnected
    /\ mqttSubscribed

====
